---- MODULE Spec2Model ----
(***************************************************************************)
(* ModbusPoller: the polling core (utils/modbus.py, utils/workers.py,      *)
(* utils/coders.py) and the part of the main widget that drives it         *)
(* (ui/widgets/Widget.py), as a state machine.                             *)
(*                                                                         *)
(* Threads: the GUI thread (button slots, the result slot, the timer slot, *)
(* the write dialog, closeEvent) and the QThreadPool threads, each running *)
(* one PollingWorker.run.  A wire transaction is a blocking call of the    *)
(* pymodbus client: a transaction is in flight from the step that starts   *)
(* it to the step that ends it, which draws the client's outcome.          *)
(***************************************************************************)
EXTENDS Integers, Sequences, FiniteSets, TLC

(***************************************************************************)
(* Bounds of the model.                                                    *)
(***************************************************************************)
\* QThreadPool().maxThreadCount(): the ideal thread count of the machine.
MaxThreads == 2
\* Calls of _init_pollers over a run (each creates one PollingWorker per
\* active device), where the operator may press the buttons again.
MaxRounds == 2
\* Poll cycles one PollingWorker performs.
MaxCycles == 2
\* Result signals queued for the GUI thread and not yet delivered.
MaxChannel == 2

(***************************************************************************)
(* Program constants.                                                      *)
(***************************************************************************)
\* PollingWorker(guid=guid, sleep=1000, fn=self.polling)
Sleep == 1000
Int16Min == -32768
Int16Max == 32767
UInt16Max == 65535
Word == 65536
Int32Min == -2147483647 - 1
Int32Max == 2147483647

(***************************************************************************)
(* Small helpers on sequences.                                             *)
(***************************************************************************)
RECURSIVE Flatten(_)
Flatten(ss) == IF ss = <<>> THEN <<>> ELSE Head(ss) \o Flatten(Tail(ss))

\* Python slice s[a:b] of a list, a and b 0-based, 0 <= a <= b.
Slice(s, a, b) ==
    LET hi == IF b > Len(s) THEN Len(s) ELSE b
    IN  IF a >= hi THEN <<>> ELSE [i \in 1..(hi - a) |-> s[a + i]]

(***************************************************************************)
(* Poller.reg_len: the word length of each of the 16 formats.              *)
(***************************************************************************)
Formats16 == {"Signed", "Unsigned", "Hex - ASCII", "Binary"}
FormatsLong == {"Long AB CD", "Long CD AB", "Long BA DC", "Long DC BA"}
FormatsFloat == {"Float AB CD", "Float CD AB", "Float BA DC", "Float DC BA"}
FormatsDouble == {"Double AB CD EF GH", "Double GH EF CD AB",
                  "Double BA DC FE HG", "Double HG FE DC BA"}
KnownFormats == Formats16 \cup FormatsLong \cup FormatsFloat \cup FormatsDouble

reg_len(format) ==
    IF format \in Formats16 THEN 1
    ELSE IF format \in FormatsLong \cup FormatsFloat THEN 2
    ELSE 4

(***************************************************************************)
(* The configuration store (config.yml as loaded by Config): per device    *)
(* the connection data and, per function, the registers keyed by address.  *)
(* Register addresses are the keys of a YAML mapping kept as strings (the  *)
(* write dialog looks a register up with addr=str(address)); an address is *)
(* held here as the integer it denotes and compared as its decimal string  *)
(* where the code compares the key.                                        *)
(* An adjustment {operator: operand} is a record: operator is one of       *)
(* "+", "-", "*", "/", "^" with the number in operand, or "#" for a key    *)
(* that is a digit string (operator.isdigit()), with int(operator) in      *)
(* operand and the dictionary's value in label.                            *)
(***************************************************************************)
Arith(op, n) == [operator |-> op, operand |-> n, label |-> ""]
Lookup(k, l) == [operator |-> "#", operand |-> k, label |-> l]

Reg(addr, id, format, adjustments, active) ==
    [address |-> addr, id |-> id, code |-> id, name |-> id,
     format |-> format, adjustments |-> adjustments, active |-> active]

\* The guids of the devices, in the order of the configuration mapping.
DeviceOrder == <<"d1", "d2", "d3">>
Devices == {DeviceOrder[i] : i \in 1..Len(DeviceOrder)}

\* self._config['devices']
ConfigDevices ==
    [d \in Devices |->
       CASE d = "d1" ->
              [name |-> "dev1", active |-> TRUE, interface |-> "", ip |-> "10.0.0.1",
               address |-> 1,
               registers |-> <<
                 [func |-> 3,
                  regs |-> << Reg(2, "r12", "Long AB CD", <<>>, TRUE),
                              Reg(0, "r10", "Signed", <<Arith("+", 5), Arith("*", 2)>>, TRUE),
                              Reg(7, "r17", "Unsigned", <<>>, FALSE) >>] >>]
         [] d = "d2" ->
              [name |-> "dev2", active |-> TRUE, interface |-> "COM1", ip |-> "",
               address |-> 2,
               registers |-> <<
                 [func |-> 1,
                  regs |-> << Reg(0, "r20", "Signed",
                                  <<Lookup(0, "No"), Lookup(1, "Yes")>>, TRUE) >>] >>]
         [] OTHER ->
              [name |-> "dev3", active |-> FALSE, interface |-> "", ip |-> "",
               address |-> 3,
               registers |-> << >>] ]

(***************************************************************************)
(* sorted(registers, key=lambda d: d['address']) on string keys: the order *)
(* of the decimal strings.                                                 *)
(***************************************************************************)
RECURSIVE Digits(_)
Digits(n) == IF n < 10 THEN <<n>> ELSE Append(Digits(n \div 10), n % 10)

RECURSIVE LexLess(_, _)
LexLess(a, b) ==
    IF a = <<>> THEN b # <<>>
    ELSE IF b = <<>> THEN FALSE
    ELSE IF Head(a) # Head(b) THEN Head(a) < Head(b)
    ELSE LexLess(Tail(a), Tail(b))

AddrKeyLess(a, b) == LexLess(Digits(a), Digits(b))

\* Insertion of one register into a list sorted by the address key; equal
\* keys keep their order (sorted() is stable).
RECURSIVE InsertByAddress(_, _)
InsertByAddress(sorted, r) ==
    IF sorted = <<>> THEN <<r>>
    ELSE IF AddrKeyLess(r.address, Head(sorted).address)
         THEN <<r>> \o sorted
         ELSE <<Head(sorted)>> \o InsertByAddress(Tail(sorted), r)

RECURSIVE SortByAddress(_)
SortByAddress(regs) ==
    IF regs = <<>> THEN <<>>
    ELSE InsertByAddress(SortByAddress(SubSeq(regs, 1, Len(regs) - 1)), regs[Len(regs)])

(***************************************************************************)
(* Config.get_pollers: for every active device its connection settings and *)
(* its active registers per function code, sorted by address key.          *)
(***************************************************************************)
PollerRegister(d, raw) ==
    [device |-> ConfigDevices[d].name, guid |-> d, address |-> raw.address,
     id |-> raw.id, code |-> raw.code, name |-> raw.name, format |-> raw.format,
     adjustments |-> raw.adjustments]

PollerSettings(d) ==
    LET device == ConfigDevices[d]
    IN  IF device.interface # ""
        THEN [protocol |-> "RTU", port |-> device.interface, ip |-> "",
              slave_id |-> device.address]
        ELSE IF device.ip # ""
        THEN [protocol |-> "TCP", port |-> "", ip |-> device.ip, slave_id |-> 1]
        ELSE [protocol |-> "", port |-> "", ip |-> "", slave_id |-> 1]

RECURSIVE ActiveRegisters(_, _)
ActiveRegisters(d, raws) ==
    IF raws = <<>> THEN <<>>
    ELSE (IF Head(raws).active THEN <<PollerRegister(d, Head(raws))>> ELSE <<>>)
         \o ActiveRegisters(d, Tail(raws))

PollerRegisters(d) ==
    LET fs == ConfigDevices[d].registers
        kept == SelectSeq(fs, LAMBDA f : f.regs # <<>>)
    IN  [i \in 1..Len(kept) |->
           [func |-> kept[i].func,
            registers |-> SortByAddress(ActiveRegisters(d, kept[i].regs))]]

ActiveDevices == {d \in Devices : ConfigDevices[d].active}
\* The keys of get_pollers() in the order of the dict.
PollerGuids == SelectSeq(DeviceOrder, LAMBDA d : ConfigDevices[d].active)

get_pollers ==
    [d \in ActiveDevices |->
       [name |-> ConfigDevices[d].name,
        settings |-> PollerSettings(d),
        registers |-> PollerRegisters(d)]]

(***************************************************************************)
(* Poller.registers (setter): the request plan.  Per function code the     *)
(* registers are walked in the given order; a register whose address is    *)
(* the previous map entry's address plus its length extends the last       *)
(* request, any other register opens a new one.  A request's map is kept   *)
(* as the list of its entries in insertion order, each with its key pos.   *)
(***************************************************************************)
MapEntry(pos, register) ==
    [pos |-> pos, id |-> register.id, address |-> register.address,
     length |-> reg_len(register.format), content |-> register]

\* NewRequest asking for one word whatever the format.
NewRequestOneWord(register) ==
    [address |-> register.address,
     quantity |-> 1,
     map |-> <<MapEntry(0, register)>>]

NewRequest(register) ==
    [address |-> register.address,
     quantity |-> reg_len(register.format),
     map |-> <<MapEntry(0, register)>>]

\* PlanStep keying each appended map entry one after the previous key.
PlanStepNextKey(requests, register) ==
    IF requests = <<>> THEN <<NewRequest(register)>>
    ELSE LET index == Len(requests)
             request == requests[index]
             prev_map_data == request.map[Len(request.map)]
         IN  IF register.address = prev_map_data.address + prev_map_data.length
             THEN [requests EXCEPT ![index] =
                     [request EXCEPT
                        !.quantity = @ + reg_len(register.format),
                        !.map = Append(@, MapEntry(prev_map_data.pos + 1, register))]]
             ELSE Append(requests, NewRequest(register))

\* PlanStep with the contiguity test taking every register for one word.
PlanStepOneWord(requests, register) ==
    IF requests = <<>> THEN <<NewRequest(register)>>
    ELSE LET index == Len(requests)
             request == requests[index]
             prev_map_data == request.map[Len(request.map)]
         IN  IF register.address = prev_map_data.address + 1
             THEN [requests EXCEPT ![index] =
                     [request EXCEPT
                        !.quantity = @ + reg_len(register.format),
                        !.map = Append(@, MapEntry(prev_map_data.pos + prev_map_data.length,
                                                   register))]]
             ELSE Append(requests, NewRequest(register))

PlanStep(requests, register) ==
    IF requests = <<>> THEN <<NewRequest(register)>>
    ELSE LET index == Len(requests)
             request == requests[index]
             prev_map_data == request.map[Len(request.map)]
         IN  IF register.address = prev_map_data.address + prev_map_data.length
             THEN [requests EXCEPT ![index] =
                     [request EXCEPT
                        !.quantity = @ + reg_len(register.format),
                        !.map = Append(@, MapEntry(prev_map_data.pos + prev_map_data.length,
                                                   register))]]
             ELSE Append(requests, NewRequest(register))

RECURSIVE PlanRequests(_)
PlanRequests(registers) ==
    IF registers = <<>> THEN <<>>
    ELSE PlanStep(PlanRequests(SubSeq(registers, 1, Len(registers) - 1)),
                  registers[Len(registers)])

\* self._requests after poller.registers = data: per function code, in the
\* order of data.items(), its requests.
SetRegisters(data) ==
    [i \in 1..Len(data) |->
       [func |-> data[i].func, requests |-> PlanRequests(data[i].registers)]]

\* The (function code, request) pairs in the order the getter walks them.
RECURSIVE RequestList(_)
RequestList(reqs) ==
    IF reqs = <<>> THEN <<>>
    ELSE [j \in 1..Len(Head(reqs).requests) |->
            [func |-> Head(reqs).func, request |-> Head(reqs).requests[j]]]
         \o RequestList(Tail(reqs))

(***************************************************************************)
(* Numbers.  The code computes in Python floats; the model computes in     *)
(* exact rationals n/d (d > 0, lowest terms), which agree with the floats  *)
(* on the integers and simple fractions drawn here.                        *)
(***************************************************************************)
Abs(x) == IF x < 0 THEN -x ELSE x

RECURSIVE GCD(_, _)
GCD(a, b) == IF b = 0 THEN a ELSE GCD(b, a % b)

Rat(n, d) ==
    LET g == GCD(Abs(n), Abs(d))
        s == IF d < 0 THEN -1 ELSE 1
    IN  [n |-> (s * n) \div g, d |-> (s * d) \div g]

RInt(i) == [n |-> i, d |-> 1]
RAdd(a, b) == Rat(a.n * b.d + b.n * a.d, a.d * b.d)
RSub(a, b) == Rat(a.n * b.d - b.n * a.d, a.d * b.d)
RMul(a, b) == Rat(a.n * b.n, a.d * b.d)
\* b.n # 0
RDiv(a, b) == Rat(a.n * b.d, a.d * b.n)
RLeq(a, b) == a.n * b.d <= b.n * a.d
REq(a, b) == a.n * b.d = b.n * a.d

\* int(x): truncation toward zero.
RTrunc(a) ==
    IF a.n >= 0 \/ a.n % a.d = 0 THEN a.n \div a.d ELSE (a.n \div a.d) + 1

RECURSIVE IPow(_, _)
IPow(b, k) == IF k = 0 THEN 1 ELSE b * IPow(b, k - 1)

\* a ** k for an integer k (a.n # 0 when k < 0).
RPow(a, k) ==
    IF k >= 0 THEN Rat(IPow(a.n, k), IPow(a.d, k))
    ELSE Rat(IPow(a.d, -k), IPow(a.n, -k))

\* r ** k <= n, for naturals, without computing a power above n.
RECURSIVE PowLeq(_, _, _)
PowLeq(r, k, n) ==
    IF k = 0 THEN 1 <= n
    ELSE r = 0 \/ PowLeq(r, k - 1, n \div r)

\* The largest r in lo..hi with r ** k <= n (lo ** k <= n).
RECURSIVE FloorRoot(_, _, _, _)
FloorRoot(n, k, lo, hi) ==
    IF lo = hi THEN lo
    ELSE LET mid == lo + ((hi - lo + 1) \div 2)
         IN  IF PowLeq(mid, k, n) THEN FloorRoot(n, k, mid, hi)
             ELSE FloorRoot(n, k, lo, mid - 1)

\* The k-th root (k >= 1) of a natural number when it is a natural number,
\* else -1.
IRoot(n, k) ==
    LET r == FloorRoot(n, k, 0, n)
    IN  IF IPow(r, k) = n THEN r ELSE -1

\* f"{x:.2f}": the sign, the digits before the point as a number and the
\* two digits after it, rounded half to even.  A float zero carries a sign
\* that a rational does not: -0.0 is written -0.00, here 0.00.
RFormat2(a) ==
    LET m == Abs(a.n)
        whole == m \div a.d
        num == (m % a.d) * 100
        q == num \div a.d
        r == num % a.d
        frac == IF 2 * r < a.d THEN q
                ELSE IF 2 * r > a.d THEN q + 1
                ELSE IF q % 2 = 0 THEN q ELSE q + 1
    IN  [neg |-> a.n < 0,
         whole |-> IF frac = 100 THEN whole + 1 ELSE whole,
         frac |-> IF frac = 100 THEN 0 ELSE frac]

(***************************************************************************)
(* Text.  A string the operator types or a decoder renders is the list of  *)
(* its characters.                                                         *)
(***************************************************************************)
DecChars == <<"0", "1", "2", "3", "4", "5", "6", "7", "8", "9">>
HexCharsLower == DecChars \o <<"a", "b", "c", "d", "e", "f">>
HexCharsUpper == DecChars \o <<"A", "B", "C", "D", "E", "F">>

IsDec(c) == \E i \in 1..10 : DecChars[i] = c
IsHex(c) == \E i \in 1..16 : HexCharsLower[i] = c \/ HexCharsUpper[i] = c
HexVal(c) == (CHOOSE i \in 1..16 : HexCharsLower[i] = c \/ HexCharsUpper[i] = c) - 1

\* int(chars, base) of a list of digits of that base.
RECURSIVE DigitsValue(_, _)
DigitsValue(cs, base) ==
    IF cs = <<>> THEN 0
    ELSE DigitsValue(SubSeq(cs, 1, Len(cs) - 1), base) * base + HexVal(cs[Len(cs)])

\* float(text) succeeds: here for an optional sign followed by decimal
\* digits (the numeric texts the model draws); every other text drawn is
\* one float() rejects with ValueError.
isNumerical(text) ==
    LET body == IF text # <<>> /\ Head(text) \in {"-", "+"} THEN Tail(text) ELSE text
    IN  body # <<>> /\ \A i \in 1..Len(body) : IsDec(body[i])

\* A number the write path computes with: the rational r, or, when huge is
\* 1 or -1, a number above or below every 32-bit integer (the model's
\* integers hold no more).
Num(r) == [huge |-> 0, r |-> r]
Huge(sign) == [huge |-> sign, r |-> RInt(0)]

RECURSIVE StripZeros(_)
StripZeros(cs) == IF Len(cs) > 1 /\ Head(cs) = "0" THEN StripZeros(Tail(cs)) ELSE cs

Int32MaxDigits == <<2, 1, 4, 7, 4, 8, 3, 6, 4, 7>>

\* The decimal digits cs (no leading zero) denote a number <= 2^31 - 1.
FitsInt32(cs) ==
    \/ Len(cs) < 10
    \/ /\ Len(cs) = 10
       /\ ~LexLess(Int32MaxDigits, [i \in 1..10 |-> HexVal(cs[i])])

\* float(text) of a text isNumerical accepts.
ParseFloat(text) ==
    LET neg == Head(text) = "-"
        body == StripZeros(IF Head(text) \in {"-", "+"} THEN Tail(text) ELSE text)
    IN  IF FitsInt32(body)
        THEN Num(RInt(IF neg THEN -DigitsValue(body, 10) ELSE DigitsValue(body, 10)))
        ELSE Huge(IF neg THEN -1 ELSE 1)

(***************************************************************************)
(* Decoder (utils/coders.py).  A decoded value is                          *)
(*   kind "int":  an integer in num;                                       *)
(*   kind "text": a string in chars;                                       *)
(*   kind "raise": the decoder raised (the slice is too short for the      *)
(*                 format: IndexError or struct.error).                    *)
(***************************************************************************)
DecInt(i) == [kind |-> "int", num |-> i, chars |-> <<>>]
DecText(cs) == [kind |-> "text", num |-> 0, chars |-> cs]
DecRaise == [kind |-> "raise", num |-> 0, chars |-> <<>>]

\* Decoder_signed with the sign boundary one word too low.
Decoder_signedFrom32767(value) ==
    DecInt(IF value[1] >= Int16Max THEN value[1] - Word ELSE value[1])

Decoder_signed(value) == DecInt(IF value[1] > Int16Max THEN value[1] - Word ELSE value[1])

Decoder_unsigned(value) == DecInt(value[1])

\* hex(n): "0x" and the lower-case digits without leading zeros.
RECURSIVE HexDigits(_)
HexDigits(n) ==
    IF n < 16 THEN <<HexCharsLower[n + 1]>>
    ELSE Append(HexDigits(n \div 16), HexCharsLower[(n % 16) + 1])

Decoder_hex_ascii(value) == DecText(<<"0", "x">> \o HexDigits(value[1]))

\* format(n, '016b') cut into four groups joined by spaces.
Bit(n, i) == IF (n \div IPow(2, i)) % 2 = 1 THEN "1" ELSE "0"

Decoder_binary(value) ==
    DecText([k \in 1..19 |->
               IF k % 5 = 0 THEN " "
               ELSE Bit(value[1], 15 - ((k - 1) - ((k - 1) \div 5)))])

SwapBytes(w) == (w % 256) * 256 + (w \div 256)

\* Decoder_long without the word order: the registers are always read high
\* word first.
Decoder_longBigWords(value, byteLittle, wordLittle) ==
    IF Len(value) < 2 THEN DecRaise
    ELSE LET bs == IF byteLittle THEN <<SwapBytes(value[1]), SwapBytes(value[2])>>
                   ELSE <<value[1], value[2]>>
         IN  DecInt((IF bs[1] > Int16Max THEN bs[1] - Word ELSE bs[1]) * Word + bs[2])

\* BinaryPayloadDecoder.fromRegisters(value, byteorder, wordorder)
\* .decode_32bit_int(): little word order reverses the two words, little
\* byte order swaps the bytes of each word; the 32 bits are two's complement.
Decoder_long(value, byteLittle, wordLittle) ==
    IF Len(value) < 2 THEN DecRaise
    ELSE LET ws == IF wordLittle THEN <<value[2], value[1]>> ELSE <<value[1], value[2]>>
             bs == IF byteLittle THEN <<SwapBytes(ws[1]), SwapBytes(ws[2])>> ELSE ws
             u == (IF bs[1] > Int16Max THEN bs[1] - Word ELSE bs[1]) * Word + bs[2]
         IN  DecInt(u)

\* format_dict[data_format](value=raw_value) for the integer formats.
DecodeRaw(raw_value, data_format) ==
    CASE data_format = "Signed" -> Decoder_signed(raw_value)
      [] data_format = "Unsigned" -> Decoder_unsigned(raw_value)
      [] data_format = "Hex - ASCII" -> Decoder_hex_ascii(raw_value)
      [] data_format = "Binary" -> Decoder_binary(raw_value)
      [] data_format = "Long AB CD" -> Decoder_long(raw_value, FALSE, FALSE)
      [] data_format = "Long CD AB" -> Decoder_long(raw_value, FALSE, TRUE)
      [] data_format = "Long BA DC" -> Decoder_long(raw_value, TRUE, FALSE)
      [] data_format = "Long DC BA" -> Decoder_long(raw_value, TRUE, TRUE)

(***************************************************************************)
(* Poller._adjust and Poller.decode_value.  The value of a row is          *)
(*   kind "num":   the text of a number with two decimals, in num;         *)
(*   kind "text":  a decoder's string, passed through;                     *)
(*   kind "label": a lookup's label;                                       *)
(*   kind "raise": an exception left the call.                             *)
(***************************************************************************)
NoNum == [neg |-> FALSE, whole |-> 0, frac |-> 0]
ValNum(f) == [kind |-> "num", num |-> f, chars |-> <<>>, label |-> ""]
ValText(cs) == [kind |-> "text", num |-> NoNum, chars |-> cs, label |-> ""]
ValLabel(l) == [kind |-> "label", num |-> NoNum, chars |-> <<>>, label |-> l]
ValRaise == [kind |-> "raise", num |-> NoNum, chars |-> <<>>, label |-> ""]

\* AdjustWalk taking the adjustments from the last to the first.
RECURSIVE AdjustWalkLastFirst(_, _)
AdjustWalkLastFirst(result, adjustments) ==
    IF adjustments = <<>> THEN ValNum(RFormat2(result))
    ELSE LET a == adjustments[Len(adjustments)]
             rest == SubSeq(adjustments, 1, Len(adjustments) - 1)
             operand == RInt(a.operand)
         IN  CASE a.operator = "#" ->
                    IF REq(result, operand) THEN ValLabel(a.label)
                    ELSE AdjustWalkLastFirst(result, rest)
               [] a.operator = "+" -> AdjustWalkLastFirst(RAdd(result, operand), rest)
               [] a.operator = "-" -> AdjustWalkLastFirst(RSub(result, operand), rest)
               [] a.operator = "*" -> AdjustWalkLastFirst(RMul(result, operand), rest)
               [] a.operator = "/" ->
                    IF a.operand = 0 THEN ValRaise
                    ELSE AdjustWalkLastFirst(RDiv(result, operand), rest)
               [] a.operator = "^" ->
                    IF a.operand < 0 /\ result.n = 0 THEN ValRaise
                    ELSE AdjustWalkLastFirst(RPow(result, a.operand), rest)
               [] OTHER -> AdjustWalkLastFirst(result, rest)

\* AdjustWalk in which a lookup that matches does not end the walk.
RECURSIVE AdjustWalkPastLookup(_, _)
AdjustWalkPastLookup(result, adjustments) ==
    IF adjustments = <<>> THEN ValNum(RFormat2(result))
    ELSE LET a == Head(adjustments)
             rest == Tail(adjustments)
             operand == RInt(a.operand)
         IN  CASE a.operator = "+" -> AdjustWalkPastLookup(RAdd(result, operand), rest)
               [] a.operator = "-" -> AdjustWalkPastLookup(RSub(result, operand), rest)
               [] a.operator = "*" -> AdjustWalkPastLookup(RMul(result, operand), rest)
               [] a.operator = "/" ->
                    IF a.operand = 0 THEN ValRaise
                    ELSE AdjustWalkPastLookup(RDiv(result, operand), rest)
               [] a.operator = "^" ->
                    IF a.operand < 0 /\ result.n = 0 THEN ValRaise
                    ELSE AdjustWalkPastLookup(RPow(result, a.operand), rest)
               [] OTHER ->
                    IF a.operator = "#" /\ REq(result, operand) /\ rest = <<>>
                    THEN ValLabel(a.label)
                    ELSE AdjustWalkPastLookup(result, rest)

\* The walk over the adjustments: result is the running value; done is set
\* by a lookup that matched or by an exception.
RECURSIVE AdjustWalk(_, _)
AdjustWalk(result, adjustments) ==
    IF adjustments = <<>> THEN ValNum(RFormat2(result))
    ELSE LET a == Head(adjustments)
             rest == Tail(adjustments)
             operand == RInt(a.operand)
         IN  CASE a.operator = "#" ->
                    IF REq(result, operand) THEN ValLabel(a.label)
                    ELSE AdjustWalk(result, rest)
               [] a.operator = "+" -> AdjustWalk(RAdd(result, operand), rest)
               [] a.operator = "-" -> AdjustWalk(RSub(result, operand), rest)
               [] a.operator = "*" -> AdjustWalk(RMul(result, operand), rest)
               [] a.operator = "/" ->
                    IF a.operand = 0 THEN ValRaise
                    ELSE AdjustWalk(RDiv(result, operand), rest)
               [] a.operator = "^" ->
                    IF a.operand < 0 /\ result.n = 0 THEN ValRaise
                    ELSE AdjustWalk(RPow(result, a.operand), rest)
               [] OTHER -> AdjustWalk(result, rest)

_adjust(value, adjustments) ==
    IF value.kind = "text" THEN ValText(value.chars)
    ELSE AdjustWalk(RInt(value.num), adjustments)

decode_value(raw_value, data_format, adjustments) ==
    IF raw_value # <<>>
    THEN IF data_format \in KnownFormats
         THEN LET decoded == DecodeRaw(raw_value, data_format)
              IN  IF decoded.kind = "raise" THEN ValRaise
                  ELSE _adjust(decoded, adjustments)
         ELSE ValRaise
    ELSE ValRaise

(***************************************************************************)
(* Poller._adjust_reverse: the adjustments walked from the last to the     *)
(* first, each arithmetic operator replaced by its inverse.  The result is *)
(* kind "ok" with the number in v, kind "raise" when the walk raised       *)
(* (division by a zero operand), or kind "inexact" when the model's        *)
(* numbers do not hold it (a root that is no rational number, arithmetic   *)
(* on a number beyond 32 bits).                                            *)
(***************************************************************************)
RevOk(r) == [kind |-> "ok", v |-> Num(r)]
RevRaise == [kind |-> "raise", v |-> Num(RInt(0))]
RevInexact == [kind |-> "inexact", v |-> Num(RInt(0))]

RRoot(a, k) ==
    LET rn == IRoot(a.n, k)
        rd == IRoot(a.d, k)
    IN  IF a.n >= 0 /\ rn >= 0 /\ rd >= 0 THEN RevOk(Rat(rn, rd)) ELSE RevInexact

\* ReverseWalk taking the adjustments from the first to the last.
RECURSIVE ReverseWalkForward(_, _)
ReverseWalkForward(value, adjustments) ==
    IF adjustments = <<>> THEN RevOk(value)
    ELSE LET a == Head(adjustments)
             rest == Tail(adjustments)
             operand == RInt(a.operand)
         IN  CASE a.operator = "+" -> ReverseWalkForward(RSub(value, operand), rest)
               [] a.operator = "-" -> ReverseWalkForward(RAdd(value, operand), rest)
               [] a.operator = "*" ->
                    IF a.operand = 0 THEN RevRaise
                    ELSE ReverseWalkForward(RDiv(value, operand), rest)
               [] a.operator = "/" -> ReverseWalkForward(RMul(value, operand), rest)
               [] a.operator = "^" ->
                    IF a.operand = 0 THEN RevRaise
                    ELSE IF a.operand = 1 THEN ReverseWalkForward(value, rest)
                    ELSE IF a.operand < 0 THEN RevInexact
                    ELSE LET root == RRoot(value, a.operand)
                         IN  IF root.kind = "ok" THEN ReverseWalkForward(root.v.r, rest)
                             ELSE root
               [] OTHER -> ReverseWalkForward(value, rest)

RECURSIVE ReverseWalk(_, _)
ReverseWalk(value, adjustments) ==
    IF adjustments = <<>> THEN RevOk(value)
    ELSE LET a == adjustments[Len(adjustments)]
             rest == SubSeq(adjustments, 1, Len(adjustments) - 1)
             operand == RInt(a.operand)
         IN  CASE a.operator = "+" -> ReverseWalk(RSub(value, operand), rest)
               [] a.operator = "-" -> ReverseWalk(RAdd(value, operand), rest)
               [] a.operator = "*" ->
                    IF a.operand = 0 THEN RevRaise
                    ELSE ReverseWalk(RDiv(value, operand), rest)
               [] a.operator = "/" -> ReverseWalk(RMul(value, operand), rest)
               [] a.operator = "^" ->
                    IF a.operand = 0 THEN RevRaise
                    ELSE IF a.operand = 1 THEN ReverseWalk(value, rest)
                    ELSE IF a.operand < 0 THEN RevInexact
                    ELSE LET root == RRoot(value, a.operand)
                         IN  IF root.kind = "ok" THEN ReverseWalk(root.v.r, rest)
                             ELSE root
               [] OTHER -> ReverseWalk(value, rest)

_adjust_reverse(value, adjustments) ==
    IF value.huge = 0 THEN ReverseWalk(value.r, adjustments)
    ELSE IF adjustments = <<>> THEN [kind |-> "ok", v |-> value]
    ELSE RevInexact

(***************************************************************************)
(* Encoder (utils/coders.py).  The result of an encode call is             *)
(*   kind "regs":  the registers to write, in regs;                        *)
(*   kind "None":  the call returned None;                                 *)
(*   kind "raise": an exception left the call.                             *)
(***************************************************************************)
EncRegs(ws) == [kind |-> "regs", regs |-> ws]
EncNone == [kind |-> "None", regs |-> <<>>]
EncRaise == [kind |-> "raise", regs |-> <<>>]
\* Outside the model's numbers: the reverse walk took an irrational root.
EncInexact == [kind |-> "inexact", regs |-> <<>>]

\* builder.add_16bit_int(int(value)); builder.to_registers()
Encoder_16bit_int(value) == EncRegs(<<RTrunc(value) % Word>>)

\* builder.add_16bit_uint(int(value)); builder.to_registers()
Encoder_16bit_uint(value) == EncRegs(<<RTrunc(value)>>)

\* if -32768 <= value <= 32767
Encoder_signed(value) ==
    IF value.huge = 0 /\ RLeq(RInt(Int16Min), value.r) /\ RLeq(value.r, RInt(Int16Max))
    THEN Encoder_16bit_int(value.r)
    ELSE EncNone

\* if 0 <= value <= 65535
Encoder_unsigned(value) ==
    IF value.huge = 0 /\ RLeq(RInt(0), value.r) /\ RLeq(value.r, RInt(UInt16Max))
    THEN Encoder_16bit_uint(value.r)
    ELSE EncNone

\* re.compile(r'^0x[0-9a-fA-F]{1,4}$').match(value)
HexAsciiPattern(text) ==
    /\ Len(text) >= 3 /\ Len(text) <= 6
    /\ text[1] = "0" /\ text[2] = "x"
    /\ \A i \in 3..Len(text) : IsHex(text[i])

\* re.compile(r'^[01]{4} [01]{4} [01]{4} [01]{4}$').match(value)
BinaryPattern(text) ==
    /\ Len(text) = 19
    /\ \A i \in 1..19 : IF i % 5 = 0 THEN text[i] = " " ELSE text[i] \in {"0", "1"}

Encoder_hex_ascii(text) ==
    IF HexAsciiPattern(text)
    THEN Encoder_16bit_uint(RInt(DigitsValue(SubSeq(text, 3, Len(text)), 16)))
    ELSE EncNone

Encoder_binary(text) ==
    IF BinaryPattern(text)
    THEN Encoder_16bit_uint(RInt(DigitsValue(SelectSeq(text, LAMBDA c : c # " "), 2)))
    ELSE EncNone

\* builder.add_32bit_int(int(value)); builder.to_registers(): struct.pack
\* raises struct.error for an integer outside the 32-bit range; the two
\* words are reversed for little word order and byte-swapped for little
\* byte order.
Encoder_32bit_int(value, byteLittle, wordLittle) ==
    IF value.huge # 0 THEN EncRaise
    ELSE LET i == RTrunc(value.r)
             ws == <<(i \div Word) % Word, i % Word>>
             wo == IF wordLittle THEN <<ws[2], ws[1]>> ELSE ws
         IN  EncRegs(IF byteLittle THEN <<SwapBytes(wo[1]), SwapBytes(wo[2])>> ELSE wo)

\* format_dict[data_format](value=value) for the integer formats; value is a
\* number for the numeric formats and the text for Hex - ASCII and Binary.
EncodeNumber(value, data_format) ==
    CASE data_format = "Signed" -> Encoder_signed(value)
      [] data_format = "Unsigned" -> Encoder_unsigned(value)
      [] data_format = "Long AB CD" -> Encoder_32bit_int(value, FALSE, FALSE)
      [] data_format = "Long CD AB" -> Encoder_32bit_int(value, FALSE, TRUE)
      [] data_format = "Long BA DC" -> Encoder_32bit_int(value, TRUE, FALSE)
      [] data_format = "Long DC BA" -> Encoder_32bit_int(value, TRUE, TRUE)

EncodeText(text, data_format) ==
    IF data_format = "Hex - ASCII" THEN Encoder_hex_ascii(text) ELSE Encoder_binary(text)

(***************************************************************************)
(* Poller.encode_value.                                                    *)
(***************************************************************************)
encode_value(text, data_format, adjustments) ==
    IF data_format \in KnownFormats
    THEN IF data_format \notin {"Hex - ASCII", "Binary"}
         THEN IF isNumerical(text)
              THEN LET value == _adjust_reverse(ParseFloat(text), adjustments)
                   IN  IF value.kind = "ok" THEN EncodeNumber(value.v, data_format)
                       ELSE IF value.kind = "raise" THEN EncRaise
                       ELSE EncInexact
              ELSE EncNone
         ELSE EncodeText(text, data_format)
    ELSE EncRaise

(***************************************************************************)
(* The wire.  A read of quantity units at an address either answers or     *)
(* fails; what a device answers is outside the program, so the words are   *)
(* fixed per address here (a coil or discrete input reads 1, the register  *)
(* at address 0 reads 40000 and any other its address) and the outcome is  *)
(* drawn by the step that ends the transaction:                            *)
(*   "ok"         a response with the units asked for;                     *)
(*   "short"      a response one unit short;                               *)
(*   "conn_exc"   the client raised ConnectionException;                   *)
(*   "error_resp" the response has isError();                              *)
(*   "modbus_exc" the client raised another ModbusException.               *)
(***************************************************************************)
ReadOutcomes == {"ok", "short", "conn_exc", "error_resp", "modbus_exc"}

DeviceUnit(func, address) ==
    IF func \in {1, 2} THEN 1 ELSE IF address = 0 THEN 40000 ELSE address

\* The value Poller._poll returns: none for None, else the list in words.
PollNone == [none |-> TRUE, words |-> <<>>]
PollWords(ws) == [none |-> FALSE, words |-> ws]

\* The client call Poller._poll makes for a function code, with
\* address=reg_address and count=reg_qnty; no call for any other code.
ReadPrimitive(func) ==
    CASE func = 1 -> "read_coils"
      [] func = 2 -> "read_discrete_inputs"
      [] func = 3 -> "read_holding_registers"
      [] func = 4 -> "read_input_registers"
      [] OTHER -> "none"

WireRead(func, reg_address, reg_qnty) ==
    [primitive |-> ReadPrimitive(func), address |-> reg_address, count |-> reg_qnty]

_poll(func, reg_address, reg_qnty, outcome) ==
    IF outcome \in {"conn_exc", "error_resp"} \/ func \notin 1..4 THEN PollNone
    ELSE LET n == IF outcome = "short" THEN reg_qnty - 1 ELSE reg_qnty
         IN  PollWords([i \in 1..n |-> DeviceUnit(func, reg_address + i - 1)])

(***************************************************************************)
(* Poller.registers (getter), the part run for one request once its wire   *)
(* read has answered: one row per map entry.  The timestamp and the        *)
(* changed flag of a row are not modelled.                                 *)
(***************************************************************************)
Row(content, value, response, fn) ==
    [device |-> content.device, id |-> content.id, address |-> content.address,
     name |-> content.name, code |-> content.code, format |-> content.format,
     value |-> value, response |-> response, func |-> fn, guid |-> content.guid]

\* raw_value = response[pos:pos+length] if response else []
RawValue(response, entry) ==
    IF response.none \/ response.words = <<>> THEN <<>>
    ELSE Slice(response.words, entry.pos,
               entry.pos + reg_len(entry.content.format))

EntryValue(response, entry) ==
    decode_value(RawValue(response, entry), entry.content.format,
                 entry.content.adjustments)

\* Some map entry's decode_value raises: the exception leaves the getter.
RequestRaises(response, request) ==
    \E k \in 1..Len(request.map) : EntryValue(response, request.map[k]).kind = "raise"

RequestRows(response, request, fn) ==
    [k \in 1..Len(request.map) |->
       Row(request.map[k].content, EntryValue(response, request.map[k]),
           response.words, fn)]

(***************************************************************************)
(* State.                                                                  *)
(***************************************************************************)
VARIABLES
    is_polling,     \* Daemon.is_polling, the stop flag PollingWorker.polling() reads
    tasks,          \* every PollingWorker created so far, with its Poller
    workers,        \* Daemon.workers: guid -> index into tasks, 0 when absent
    poolQueue,      \* QThreadPool: the runnables waiting for a thread
    channel,        \* result signals emitted and not yet delivered to the slot
    workers_data,   \* Daemon.workers_data, an ordered dict guid -> registers
    table_data,     \* Daemon.table_data
    data_tb,        \* the rows the data table shows
    gui,            \* the GUI thread: where it is and the write it is in
    calc            \* a call of the planner or of a codec made on its own:
                    \* its arguments and, once made, what it returned

vars == <<is_polling, tasks, workers, poolQueue, channel, workers_data,
          table_data, data_tb, gui, calc>>

\* The variables of the running program.
progVars == <<is_polling, tasks, workers, poolQueue, channel, workers_data,
              table_data, data_tb, gui>>

(***************************************************************************)
(* A PollingWorker and its Poller.                                         *)
(*   pc:    "queued" waiting in the pool, "connect", "reading" (the wire   *)
(*          read of request bi is in flight), "emit", "check",             *)
(*          "disconnect", "finish", "done" (run returned), "crashed" (an   *)
(*          exception left run);                                           *)
(*   conn:  Poller._connection: "none" (None), "open" (client object, the  *)
(*          transport opened), "unopened" (client object whose connect()   *)
(*          returned False), "closed" (close() was called);                *)
(*   result, resultNone: the rows gathered in this cycle, or None;         *)
(*   published: what this cycle emitted on the result signal ("" nothing   *)
(*          yet, "rows" a list of rows, "None");                           *)
(*   exec_time: Worker._exec_time; measured and slept record the elapsed   *)
(*          time of the cycle and what msleep was called with (-1: not     *)
(*          yet);  cycles: the cycles completed;                           *)
(*   raised: the exception that left run ("" none);  failed: the wire read *)
(*          that came before it got no answer (_poll returned None);       *)
(*   finished: the finished signal was emitted.                            *)
(***************************************************************************)
NewTask(guid, device) ==
    [guid |-> guid, pc |-> "queued", conn |-> "none",
     settings |-> device.settings,
     requests |-> RequestList(SetRegisters(device.registers)),
     bi |-> 1, result |-> <<>>, resultNone |-> FALSE, published |-> "",
     exec_time |-> 0, measured |-> 0, slept |-> -1,
     cycles |-> 0, raised |-> "", failed |-> FALSE, finished |-> FALSE,
     reads |-> <<>>]

TaskIds == 1..Len(tasks)
RunningPcs == {"connect", "reading", "emit", "check", "disconnect", "finish"}
\* QThreadPool.activeThreadCount()
ActiveThreadCount == Cardinality({t \in TaskIds : tasks[t].pc \in RunningPcs})

GuiIdle == [pc |-> "idle", task |-> 0, kind |-> "", text |-> <<>>, format |-> "",
            adjustments |-> <<>>, encoded |-> "", performed |-> FALSE,
            waited |-> {}]

\* No call is being looked at on its own.
NoCalc == [op |-> "none"]

InitProgram ==
    /\ is_polling = FALSE
    /\ tasks = <<>>
    /\ workers = [d \in Devices |-> 0]
    /\ poolQueue = <<>>
    /\ channel = <<>>
    /\ workers_data = <<>>
    /\ table_data = <<>>
    /\ data_tb = <<>>
    /\ gui = GuiIdle

Init ==
    /\ InitProgram
    /\ calc = NoCalc

(***************************************************************************)
(* The thread pool.  start(runnable) runs it at once when a thread is      *)
(* free and queues it otherwise; a thread whose runnable returned (or      *)
(* raised) takes the head of the queue.                                    *)
(***************************************************************************)
\* QThreadPool().maxThreadCount(): what the machine the window runs on
\* offers, MaxThreads unless a machine was chosen.
maxThreadCount == IF calc.op = "machine" THEN calc.threads ELSE MaxThreads

RECURSIVE PoolStart(_, _, _)
\* Submit the runnables ids, in order, to the pool state <<ts, queue>>.
PoolStart(ts, queue, ids) ==
    IF ids = <<>> THEN <<ts, queue>>
    ELSE LET t == Head(ids)
             active == Cardinality({u \in 1..Len(ts) : ts[u].pc \in RunningPcs})
         IN  IF active < maxThreadCount
             THEN PoolStart([ts EXCEPT ![t].pc = "connect"], queue, Tail(ids))
             ELSE PoolStart(ts, Append(queue, t), Tail(ids))

\* The runnable t has ended with pc endPc: its thread takes the next one.
PoolEnd(ts, queue, t, endPc) ==
    LET ended == [ts EXCEPT ![t].pc = endPc]
    IN  IF queue = <<>> THEN <<ended, queue>>
        ELSE <<[ended EXCEPT ![Head(queue)].pc = "connect"], Tail(queue)>>

\* The exception exc leaves run of worker t in ts: the thread prints it and
\* the runnable is over.
Crash(t, ts, exc) ==
    LET p == PoolEnd([ts EXCEPT ![t] = [@ EXCEPT !.bi = 1, !.result = <<>>,
                                               !.resultNone = FALSE,
                                               !.published = "",
                                               !.measured = 0, !.slept = -1,
                                               !.raised = exc]],
                     poolQueue, t, "crashed")
    IN  /\ tasks' = p[1]
        /\ poolQueue' = p[2]

(***************************************************************************)
(* Widget._init_pollers, _kill_pollers, start_polling, test_polling.       *)
(***************************************************************************)
\* _init_pollers: a Poller and a PollingWorker per device of get_pollers(),
\* each stored in workers under its guid (replacing the one stored there).
InitPollers(ts, ws) ==
    LET n == Len(ts)
        created == [i \in 1..Len(PollerGuids) |->
                      NewTask(PollerGuids[i], get_pollers[PollerGuids[i]])]
    IN  <<ts \o created,
          [d \in Devices |->
             IF \E i \in 1..Len(PollerGuids) : PollerGuids[i] = d
             THEN n + (CHOOSE i \in 1..Len(PollerGuids) : PollerGuids[i] = d)
             ELSE ws[d]]>>

\* for worker in self.dmn.workers.values(): self.dmn.threadpool.start(worker)
WorkerValues(ws) ==
    LET present == SelectSeq(DeviceOrder, LAMBDA d : ws[d] # 0)
    IN  [i \in 1..Len(present) |-> ws[present[i]]]

InitAndStart ==
    LET made == InitPollers(tasks, workers)
        p == PoolStart(made[1], poolQueue, WorkerValues(made[2]))
    IN  /\ tasks' = p[1]
        /\ poolQueue' = p[2]
        /\ workers' = made[2]

\* start_polling with the button checked; rounds bounds the calls of
\* _init_pollers over a run.
StartPolling(rounds) ==
    /\ gui.pc = "idle"
    /\ ~is_polling
    /\ Len(tasks) < rounds * Len(PollerGuids)
    /\ is_polling' = TRUE
    /\ InitAndStart
    /\ UNCHANGED <<channel, workers_data, table_data, data_tb, gui>>
    /\ UNCHANGED calc

\* start_polling with the button unchecked: _kill_pollers clears workers.
StopPolling ==
    /\ gui.pc = "idle"
    /\ is_polling
    /\ is_polling' = FALSE
    /\ workers' = [d \in Devices |-> 0]
    /\ UNCHANGED <<tasks, poolQueue, channel, workers_data, table_data, data_tb, gui>>
    /\ UNCHANGED calc

\* test_polling: only when polling is off; the flag stays off.
TestPolling(rounds) ==
    /\ gui.pc = "idle"
    /\ is_polling = FALSE
    /\ Len(tasks) < rounds * Len(PollerGuids)
    /\ InitAndStart
    /\ UNCHANGED <<is_polling, channel, workers_data, table_data, data_tb, gui>>
    /\ UNCHANGED calc

(***************************************************************************)
(* PollingWorker.run, step by step.                                        *)
(***************************************************************************)
\* Poller._get_connection: None unless the settings name a transport.
HasConnection(settings) ==
    \/ settings.protocol = "TCP" /\ settings.ip # ""
    \/ settings.protocol = "RTU"

\* The fields of a worker that hold nothing once its cycle is over.
CycleReset(task) ==
    [task EXCEPT !.bi = 1, !.result = <<>>, !.resultNone = FALSE, !.published = "",
                 !.exec_time = 0, !.measured = 0, !.slept = -1, !.reads = <<>>]

\* The getter starts: with no request at all it reaches `del response`,
\* which raises; else the wire read of the first request begins.
BeginCycle(t, ts) ==
    IF ts[t].requests = <<>>
    THEN Crash(t, ts, "UnboundLocalError")
    ELSE /\ tasks' = [ts EXCEPT ![t] = [CycleReset(@) EXCEPT !.pc = "reading"]]
         /\ UNCHANGED poolQueue

\* self._poller.connect(): opened says whether the client's connect()
\* opened the transport; its return value is not looked at, and the first
\* cycle begins.  Without a connection object None.connect() raises.
Connect(t, opened) ==
    /\ tasks[t].pc = "connect"
    /\ IF HasConnection(tasks[t].settings)
       THEN BeginCycle(t, [tasks EXCEPT ![t].conn = IF opened THEN "open"
                                                  ELSE "unopened"])
       ELSE Crash(t, tasks, "AttributeError")
    /\ UNCHANGED <<is_polling, workers, channel, workers_data, table_data, data_tb, gui>>
    /\ UNCHANGED calc

\* The wire read of request bi returns; the rows of the request are
\* decoded and the read of the next request begins, or the getter returns.
ReadEnd(t, outcome) ==
    /\ tasks[t].pc = "reading"
    /\ LET task == tasks[t]
           item == task.requests[task.bi]
           response == _poll(item.func, item.request.address, item.request.quantity,
                             outcome)
           read == WireRead(item.func, item.request.address, item.request.quantity)
       IN  IF outcome = "modbus_exc"
           THEN \* except ModbusException: ... return None
                /\ tasks' = [tasks EXCEPT ![t].resultNone = TRUE,
                                          ![t].result = <<>>,
                                          ![t].reads = Append(@, read),
                                          ![t].pc = "emit"]
                /\ UNCHANGED poolQueue
           ELSE IF RequestRaises(response, item.request)
           THEN \* decode_value raises ValueError, which the getter lets pass
                Crash(t, [tasks EXCEPT ![t].failed = response.none,
                                       ![t].reads = Append(@, read)], "ValueError")
           ELSE /\ tasks' = [tasks EXCEPT
                               ![t].result = @ \o RequestRows(response, item.request,
                                                             item.func),
                               ![t].reads = Append(@, read),
                               ![t].bi = @ + 1,
                               ![t].pc = IF task.bi = Len(task.requests)
                                         THEN "emit" ELSE "reading"]
                /\ UNCHANGED poolQueue
    /\ UNCHANGED <<is_polling, workers, channel, workers_data, table_data, data_tb, gui>>
    /\ UNCHANGED calc

\* The values drawn for the time a cycle took, in milliseconds.
ElapsedChoices == {200, Sleep, Sleep + 200}

\* Worker.run: the duration msleep is called with.
SleepDuration(sleep, exec_time) ==
    sleep - (IF exec_time > sleep THEN 0 ELSE exec_time)

\* self.signals.result.emit(result); self._exec_time = elapsed;
\* super().run(), which sleeps and zeroes _exec_time.  The signal is queued
\* for the GUI thread; once closeEvent spins, the event loop delivers
\* nothing any more and the signal is not kept.
EmitAndSleep(t, elapsed) ==
    /\ tasks[t].pc = "emit"
    /\ IF gui.pc \in {"closing", "closed"}
       THEN UNCHANGED channel
       ELSE /\ Len(channel) < MaxChannel
            /\ channel' = Append(channel, [guid |-> tasks[t].guid,
                                           none |-> tasks[t].resultNone,
                                           rows |-> tasks[t].result])
    /\ tasks' = [tasks EXCEPT ![t].published = IF tasks[t].resultNone THEN "None"
                                               ELSE "rows",
                              ![t].measured = elapsed,
                              ![t].slept = SleepDuration(Sleep, elapsed),
                              ![t].exec_time = 0,
                              ![t].pc = "check"]
    /\ UNCHANGED <<is_polling, workers, poolQueue, workers_data, table_data, data_tb, gui>>
    /\ UNCHANGED calc

\* if self.polling() is False: break; else the next cycle begins.
CheckStop(t) ==
    /\ tasks[t].pc = "check"
    /\ IF is_polling = FALSE
       THEN /\ tasks' = [tasks EXCEPT ![t] = [CycleReset(@) EXCEPT !.pc = "disconnect",
                                                                  !.cycles = @ + 1]]
            /\ UNCHANGED poolQueue
       ELSE /\ tasks[t].cycles + 1 < MaxCycles
            /\ BeginCycle(t, [tasks EXCEPT ![t].cycles = @ + 1])
    /\ UNCHANGED <<is_polling, workers, channel, workers_data, table_data, data_tb, gui>>
    /\ UNCHANGED calc

\* Poller.disconnect closing whether or not there is a connection object.
DisconnectConnAlways(conn) == "closed"

\* Poller.disconnect: close() when there is a connection object.
DisconnectConn(conn) == IF conn # "none" THEN "closed" ELSE conn

Disconnect(t) ==
    /\ tasks[t].pc = "disconnect"
    /\ tasks' = [tasks EXCEPT ![t].conn = DisconnectConn(@),
                              ![t].pc = "finish"]
    /\ UNCHANGED <<is_polling, workers, poolQueue, channel, workers_data, table_data,
                   data_tb, gui>>
    /\ UNCHANGED calc

\* self.signals.finished.emit(self.guid); run returns.
Finish(t) ==
    /\ tasks[t].pc = "finish"
    /\ LET p == PoolEnd([tasks EXCEPT ![t].finished = TRUE], poolQueue, t, "done")
       IN  /\ tasks' = p[1]
           /\ poolQueue' = p[2]
    /\ UNCHANGED <<is_polling, workers, channel, workers_data, table_data, data_tb, gui>>
    /\ UNCHANGED calc

(***************************************************************************)
(* The GUI thread: the result slot and the timer slot.                     *)
(***************************************************************************)
\* dict[key] = value on an ordered dict kept as a list of entries.
DictSet(dict, entry) ==
    IF \E i \in 1..Len(dict) : dict[i].guid = entry.guid
    THEN [i \in 1..Len(dict) |-> IF dict[i].guid = entry.guid THEN entry ELSE dict[i]]
    ELSE Append(dict, entry)

\* worker_exec: self.dmn.workers_data[guid] = result['registers']
WorkerExec ==
    /\ gui.pc = "idle"
    /\ channel # <<>>
    /\ workers_data' = DictSet(workers_data,
                               [guid |-> Head(channel).guid,
                                none |-> Head(channel).none,
                                rows |-> Head(channel).rows])
    /\ channel' = Tail(channel)
    /\ UNCHANGED <<is_polling, tasks, workers, poolQueue, table_data, data_tb, gui>>
    /\ UNCHANGED calc

\* list(chain.from_iterable(self.dmn.table_data.values()))
ChainRows(dict) == Flatten([i \in 1..Len(dict) |-> dict[i].rows])

\* data_tb.load(data) when the row count changed, else
\* data_tb.update(data, columns=[6]): only the value column is rewritten.
TableShow(shown, data) ==
    IF Len(shown) # Len(data) THEN data
    ELSE [i \in 1..Len(shown) |-> [shown[i] EXCEPT !.value = data[i].value]]

\* daemon_fn, on the timer.  A None among the values of workers_data makes
\* the loop over the registers raise after table_data was assigned.
DaemonFn ==
    /\ gui.pc = "idle"
    /\ table_data # workers_data
    /\ table_data' = workers_data
    /\ data_tb' = IF \E i \in 1..Len(workers_data) : workers_data[i].none
                  THEN data_tb
                  ELSE TableShow(data_tb, ChainRows(workers_data))
    /\ UNCHANGED <<is_polling, tasks, workers, poolQueue, channel, workers_data, gui>>
    /\ UNCHANGED calc

(***************************************************************************)
(* The GUI thread: data_tb_set_value, the write dialog on a row of the     *)
(* data table, and the two write calls of PollingWorker and Poller.        *)
(***************************************************************************)
Chars(s) == CASE s = "100" -> <<"1", "0", "0">>
              [] s = "70000" -> <<"7", "0", "0", "0", "0">>
              [] s = "3000000000" -> <<"3", "0", "0", "0", "0", "0", "0", "0", "0", "0">>
              [] s = "-5" -> <<"-", "5">>
              [] s = "abc" -> <<"a", "b", "c">>
              [] s = "0x1f" -> <<"0", "x", "1", "f">>

\* What the operator types into the dialog.
WriteTexts == {Chars("100"), Chars("70000"), Chars("3000000000"), Chars("abc")}

\* config.get_device_register_data(guid, None, str(address), reg_id)
RegisterData(guid, address, reg_id) ==
    LET fs == ConfigDevices[guid].registers
        all == Flatten([i \in 1..Len(fs) |-> fs[i].regs])
        byAddr == SelectSeq(all, LAMBDA r : r.address = address /\ r.id = reg_id)
        byId == SelectSeq(all, LAMBDA r : r.id = reg_id)
    IN  IF byAddr # <<>> THEN byAddr[1] ELSE byId[1]

\* items: the labels (the values of the adjustment dicts).
Items(register) ==
    [i \in 1..Len(register.adjustments) |->
       IF register.adjustments[i].operator = "#"
       THEN register.adjustments[i].label
       ELSE "num"]

GuiRaised == [GuiIdle EXCEPT !.pc = "raised"]

\* fn == 1: the dialog offers the labels; the chosen label's index is the
\* coil value.  The call chain is workers[guid].writeSingleCoil ->
\* Poller.writeSingleCoil -> connection.write_coil.
SetCoil(row) ==
    /\ gui.pc = "idle"
    /\ row \in {data_tb[i] : i \in 1..Len(data_tb)}
    /\ row.func = 1
    /\ LET register == RegisterData(row.guid, row.address, row.id)
           items == Items(register)
           known == row.value.kind = "label"
                    /\ \E i \in 1..Len(items) : items[i] = row.value.label
           t == workers[row.guid]
       IN  IF ~known \/ t = 0 \/ tasks[t].conn = "none"
           THEN \* items.index(cur_value), workers[guid] or None.write_coil raise
                gui' = [GuiRaised EXCEPT !.kind = "coil"]
           ELSE gui' = [GuiIdle EXCEPT !.pc = "writing", !.task = t, !.kind = "coil"]
    /\ UNCHANGED <<is_polling, tasks, workers, poolQueue, channel, workers_data,
                   table_data, data_tb>>
    /\ UNCHANGED calc

\* fn == 3: the dialog takes a text.  PollingWorker.writeRegisters encodes
\* it and, unless the encoder returned None, calls Poller.writeRegisters.
\* Texts whose reverse walk leaves the numbers kept here are not drawn.
SetRegister(row, text) ==
    /\ gui.pc = "idle"
    /\ row \in {data_tb[i] : i \in 1..Len(data_tb)}
    /\ row.func = 3
    /\ encode_value(text, row.format,
                    RegisterData(row.guid, row.address, row.id).adjustments).kind
         # "inexact"
    /\ LET register == RegisterData(row.guid, row.address, row.id)
           t == workers[row.guid]
           encoded == encode_value(text, row.format, register.adjustments)
           input == [GuiIdle EXCEPT !.kind = "regs", !.text = text,
                                    !.format = row.format,
                                    !.adjustments = register.adjustments,
                                    !.encoded = encoded.kind]
       IN  IF t = 0 \/ encoded.kind = "raise"
           THEN gui' = [input EXCEPT !.pc = "raised"]
           ELSE IF encoded.kind = "None"
           THEN \* writeRegisters returns None: the message box
                gui' = [input EXCEPT !.pc = "msgbox", !.task = t]
           ELSE IF tasks[t].conn = "none"
           THEN gui' = [input EXCEPT !.pc = "raised"]
           ELSE gui' = [input EXCEPT !.pc = "writing", !.task = t]
    /\ UNCHANGED <<is_polling, tasks, workers, poolQueue, channel, workers_data,
                   table_data, data_tb>>
    /\ UNCHANGED calc

\* The wire write returns (ok) or the client raises.  A register write
\* that returned is followed by `if result is None: msgBox_fn(...)`, where
\* result is what PollingWorker.writeRegisters returned.
WorkerWriteRegistersResult == "None"

WriteEnd(ok) ==
    /\ gui.pc = "writing"
    /\ gui' = IF ~ok THEN [gui EXCEPT !.pc = "raised"]
              ELSE IF gui.kind = "regs" /\ WorkerWriteRegistersResult = "None"
              THEN [gui EXCEPT !.pc = "msgbox", !.performed = TRUE]
              ELSE [gui EXCEPT !.pc = "written", !.performed = TRUE]
    /\ UNCHANGED <<is_polling, tasks, workers, poolQueue, channel, workers_data,
                   table_data, data_tb>>
    /\ UNCHANGED calc

\* The slot returns to the event loop (the message box is dismissed, or the
\* exception was printed).
GuiReturn ==
    /\ gui.pc \in {"msgbox", "raised", "written"}
    /\ gui' = GuiIdle
    /\ UNCHANGED <<is_polling, tasks, workers, poolQueue, channel, workers_data,
                   table_data, data_tb>>
    /\ UNCHANGED calc

(***************************************************************************)
(* closeEvent: the flag is cleared and the GUI thread spins until the pool *)
(* has no active thread.  waited records the workers whose run was active  *)
(* when the flag was cleared.                                              *)
(***************************************************************************)
CloseEvent ==
    /\ gui.pc = "idle"
    /\ is_polling' = FALSE
    /\ gui' = [GuiIdle EXCEPT !.pc = "closing",
                              !.waited = {t \in TaskIds : tasks[t].pc \in RunningPcs}]
    /\ UNCHANGED <<tasks, workers, poolQueue, channel, workers_data, table_data, data_tb>>
    /\ UNCHANGED calc

CloseWaitEnds ==
    /\ gui.pc = "closing"
    /\ ActiveThreadCount = 0
    /\ gui' = [gui EXCEPT !.pc = "closed"]
    /\ UNCHANGED <<is_polling, tasks, workers, poolQueue, channel, workers_data,
                   table_data, data_tb>>
    /\ UNCHANGED calc

(***************************************************************************)
(* Spec: one polling session.  The operator starts polling or test-polls   *)
(* once and may stop; the workers run against a wire that may fail in      *)
(* every way; the result slot takes what they publish; the window may be   *)
(* closed.                                                                 *)
(***************************************************************************)
WorkerEnd ==
    \/ \E t \in TaskIds : CheckStop(t)
    \/ \E t \in TaskIds : Disconnect(t)
    \/ \E t \in TaskIds : Finish(t)

Next ==
    \/ StartPolling(1)
    \/ StopPolling
    \/ TestPolling(1)
    \/ \E t \in TaskIds : \E opened \in BOOLEAN : Connect(t, opened)
    \/ \E t \in TaskIds : \E outcome \in ReadOutcomes : ReadEnd(t, outcome)
    \/ \E t \in TaskIds : \E elapsed \in ElapsedChoices : EmitAndSleep(t, elapsed)
    \/ WorkerEnd
    \/ WorkerExec
    \/ CloseEvent
    \/ CloseWaitEnds

Spec == Init /\ [][Next]_vars

(***************************************************************************)
(* SpecRestart: the operator presses start, stop and test again, up to     *)
(* MaxRounds rounds of workers.  The transport opens, a read answers or    *)
(* raises ConnectionException, and a cycle takes 200 ms.                   *)
(***************************************************************************)
NextRestart ==
    \/ StartPolling(MaxRounds)
    \/ StopPolling
    \/ TestPolling(MaxRounds)
    \/ \E t \in TaskIds : Connect(t, TRUE)
    \/ \E t \in TaskIds : \E outcome \in {"ok", "conn_exc"} : ReadEnd(t, outcome)
    \/ \E t \in TaskIds : EmitAndSleep(t, 200)
    \/ WorkerEnd
    \/ WorkerExec

SpecRestart == Init /\ [][NextRestart]_vars

(***************************************************************************)
(* SpecWrite: the write dialog during one polling session.  The timer slot *)
(* fills the data table and the operator writes to its rows.  The          *)
(* transport opens and a cycle takes 200 ms.                               *)
(***************************************************************************)
NextWrite ==
    \/ StartPolling(1)
    \/ StopPolling
    \/ TestPolling(1)
    \/ \E t \in TaskIds : Connect(t, TRUE)
    \/ \E t \in TaskIds :
         \E outcome \in {"ok", "conn_exc", "modbus_exc"} : ReadEnd(t, outcome)
    \/ \E t \in TaskIds : EmitAndSleep(t, 200)
    \/ WorkerEnd
    \/ WorkerExec
    \/ DaemonFn
    \/ \E i \in 1..Len(data_tb) : SetCoil(data_tb[i])
    \/ \E i \in 1..Len(data_tb) : \E text \in WriteTexts : SetRegister(data_tb[i], text)
    \/ \E ok \in BOOLEAN : WriteEnd(ok)
    \/ GuiReturn

SpecWrite == Init /\ [][NextWrite]_vars

(***************************************************************************)
(* SpecPool: polling on a machine whose pool has 1..MaxThreads threads.    *)
(* The operator starts polling once and may stop; every wire read answers. *)
(* A worker's loop goes on for as long as the flag is set: past MaxCycles  *)
(* cycles the count stays.                                                 *)
(* Every thread that can take a step takes one in the end, every wire read *)
(* returns in the end, and the GUI event loop delivers every queued signal *)
(* in the end; nothing makes the operator press stop.                      *)
(***************************************************************************)
MachineThreads == 1..MaxThreads

InitPool ==
    /\ InitProgram
    /\ calc \in {[op |-> "machine", threads |-> n] : n \in MachineThreads}

\* while True: the flag is set, the next cycle begins (cycles is at its cap).
CheckStopOn(t) ==
    /\ tasks[t].pc = "check"
    /\ is_polling
    /\ tasks[t].cycles + 1 >= MaxCycles
    /\ BeginCycle(t, tasks)
    /\ UNCHANGED <<is_polling, workers, channel, workers_data, table_data, data_tb, gui>>
    /\ UNCHANGED calc

\* A step of the thread that runs worker t, the return of a wire read apart.
WorkerStep(t) ==
    /\ t \in TaskIds
    /\ \/ \E opened \in BOOLEAN : Connect(t, opened)
       \/ \E elapsed \in ElapsedChoices : EmitAndSleep(t, elapsed)
       \/ CheckStop(t)
       \/ CheckStopOn(t)
       \/ Disconnect(t)
       \/ Finish(t)

\* Worker t waits for a wire read to return.
InRead(t) == t \in TaskIds /\ tasks[t].pc = "reading"

NextPool ==
    \/ StartPolling(1)
    \/ StopPolling
    \/ \E t \in TaskIds : \E opened \in BOOLEAN : Connect(t, opened)
    \/ \E t \in TaskIds : ReadEnd(t, "ok")
    \/ \E t \in TaskIds : \E elapsed \in ElapsedChoices : EmitAndSleep(t, elapsed)
    \/ WorkerEnd
    \/ \E t \in TaskIds : CheckStopOn(t)
    \/ WorkerExec

\* The operating system schedules every thread, and emit() never waits:
\* a step that the bound MaxChannel holds back now and then is taken all
\* the same (SF).  A wire read returns or raises once the client's timeout
\* is over; the event loop runs.
FairPool ==
    /\ \A t \in 1..Len(PollerGuids) : SF_vars(WorkerStep(t))
    /\ \A t \in 1..Len(PollerGuids) : []<>~InRead(t)
    /\ WF_vars(WorkerExec)

SpecPool == InitPool /\ [][NextPool]_vars /\ FairPool

(***************************************************************************)
(* SpecPlan: the planner and the getter called on their own.  A Poller is  *)
(* given the registers of function code 3 (up to MaxRegs registers at      *)
(* distinct addresses up to MaxAddr, one or two words long, in any order)  *)
(* and possibly one register of function code 4; then its getter runs     *)
(* against a wire on which every read answers in full.                     *)
(***************************************************************************)
\* Registers per function code and the highest address in a drawn plan.
MaxRegs == 3
MaxAddr == 3

PlanFormats == {"Signed", "Long AB CD"}

RegIds == <<"r0", "r1", "r2", "r3", "r4", "r5", "r6", "r7">>

\* A register as get_pollers() hands it to the setter.
PlanRegister(address, format) ==
    [device |-> "dev", guid |-> "d", address |-> address, id |-> RegIds[address + 1],
     code |-> RegIds[address + 1], name |-> RegIds[address + 1], format |-> format,
     adjustments |-> <<>>]

\* The register lists drawn: addresses are the keys of a dict, so distinct.
RegisterLists ==
    UNION {{rs \in [1..n -> {PlanRegister(a, f) : a \in 0..MaxAddr, f \in PlanFormats}] :
              \A i, j \in 1..n : i # j => rs[i].address # rs[j].address}
           : n \in 0..MaxRegs}

PlanInputs ==
    {<<[func |-> 3, registers |-> rs]>> \o extra :
        rs \in RegisterLists,
        extra \in {<<>>, <<[func |-> 4, registers |-> <<PlanRegister(0, "Signed")>>]>>}}

\* Poller.registers (getter) run in one piece over the (function, request)
\* pairs items, the wire answering the k-th read with outcomes[k]: the rows,
\* None, or the exception that leaves the getter.
GetRows(rows) == [kind |-> "rows", rows |-> rows, raised |-> ""]
GetNone == [kind |-> "None", rows |-> <<>>, raised |-> ""]
GetRaise(exc) == [kind |-> "raise", rows |-> <<>>, raised |-> exc]

RECURSIVE GetterWalk(_, _, _)
GetterWalk(items, outcomes, result) ==
    IF items = <<>> THEN GetRows(result)
    ELSE LET item == Head(items)
             response == _poll(item.func, item.request.address, item.request.quantity,
                               Head(outcomes))
         IN  IF Head(outcomes) = "modbus_exc" THEN GetNone
             ELSE IF RequestRaises(response, item.request) THEN GetRaise("ValueError")
             ELSE GetterWalk(Tail(items), Tail(outcomes),
                             result \o RequestRows(response, item.request, item.func))

\* With no request at all `del response` raises UnboundLocalError.
Getter(items, outcomes) ==
    IF items = <<>> THEN GetRaise("UnboundLocalError")
    ELSE GetterWalk(items, outcomes, <<>>)

\* The registers of one function code of a device as the configuration
\* holds them, in the order they were entered: addresses on both sides of
\* the step from one decimal digit to two.
ConfigAddresses == {8, 9, 10, 11}

ConfigRegister(address, format) ==
    Reg(address, RegIds[(address % Len(RegIds)) + 1], format, <<>>, TRUE)

ConfigFormats == PlanFormats \cup {"Double AB CD EF GH"}

ConfigLists ==
    UNION {{rs \in [1..n -> {ConfigRegister(a, f) : a \in ConfigAddresses,
                                                   f \in ConfigFormats}] :
              \A i, j \in 1..n : i # j => rs[i].address # rs[j].address}
           : n \in 0..MaxRegs}

ActivateInputs ==
    {[op |-> "activate", stage |-> "args", regs |-> rs, supplied |-> <<>>,
      requests |-> <<>>] : rs \in ConfigLists}

InitPlan ==
    /\ InitProgram
    /\ calc \in {[op |-> "plan", stage |-> "args", data |-> d, requests |-> <<>>,
                   polled |-> GetNone] : d \in PlanInputs} \cup ActivateInputs

\* poller.registers = data
PlanBuild ==
    /\ calc.op = "plan" /\ calc.stage = "args"
    /\ calc' = [calc EXCEPT !.stage = "planned", !.requests = SetRegisters(calc.data)]
    /\ UNCHANGED progVars

\* poller.registers, every read answering in full
PollOnce ==
    /\ calc.op = "plan" /\ calc.stage = "planned"
    /\ LET items == RequestList(calc.requests)
       IN  calc' = [calc EXCEPT !.stage = "polled",
                                !.polled = Getter(items, [k \in 1..Len(items) |-> "ok"])]
    /\ UNCHANGED progVars

\* get_pollers() sorts the active registers of the function code, and
\* _init_pollers hands them to poller.registers
Activate ==
    /\ calc.op = "activate" /\ calc.stage = "args"
    /\ LET supplied == SortByAddress(ActiveRegisters("d1", calc.regs))
       IN  calc' = [calc EXCEPT !.stage = "planned",
                                !.supplied = supplied,
                                !.requests = PlanRequests(supplied)]
    /\ UNCHANGED progVars

NextPlan == PlanBuild \/ PollOnce \/ Activate

SpecPlan == InitPlan /\ [][NextPlan]_vars

(***************************************************************************)
(* SpecCodec: the adjustment pipeline and the codecs called on their own.  *)
(*   op "adjust": _adjust on a decoded number and a list of up to MaxSteps *)
(*                adjustments, then _adjust_reverse on the number the      *)
(*                formatted text denotes, with the same list.              *)
(*   op "codec":  an Encoder method on a number or a literal, then the     *)
(*                Decoder method of the same format on the registers.      *)
(*   op "encode_value", "decode_value": the two Poller methods, also with  *)
(*                a format name that is none of the known ones.            *)
(*   op "disconnect": Poller.disconnect called twice on a Poller whose     *)
(*                connection is in any of its states.                      *)
(***************************************************************************)
MaxSteps == 2

\* The adjustments drawn: every arithmetic operator, with operands that do
\* and do not have an inverse, and the lookups of an on/off register.
StepChoices ==
    {Arith("+", 5), Arith("-", 3), Arith("*", 2), Arith("*", 0), Arith("/", 3),
     Arith("/", 0), Arith("^", 2), Lookup(0, "No"), Lookup(1, "Yes")}

StepLists == UNION {[1..n -> StepChoices] : n \in 0..MaxSteps}

\* The decoded numbers drawn.
RawChoices == {-2, 0, 1, 10}

AdjustInputs ==
    {[op |-> "adjust", stage |-> "args", raw |-> x, steps |-> st,
      out |-> ValRaise, rev |-> RevRaise] : x \in RawChoices, st \in StepLists}

\* float(text) of a text _adjust formatted.
FloatOfFormatted(f) ==
    LET x == RAdd(RInt(f.whole), Rat(f.frac, 100))
    IN  Num(IF f.neg THEN RSub(RInt(0), x) ELSE x)

\* The numbers drawn for the encoders: the ends of each range, values
\* inside it and values just outside it.
CodecNumbers(format) ==
    CASE format = "Signed" ->
           {Int16Min - 1, Int16Min, -25536, -1, 0, 100, Int16Max, Int16Max + 1, 40000}
      [] format = "Unsigned" -> {-1, 0, 100, Int16Max + 1, 40000, UInt16Max, UInt16Max + 1}
      [] OTHER -> {Int32Min, -70000, -1, 0, 258, 70000, 305419896, Int32Max}

\* The literals drawn for Hex - ASCII and Binary, well formed and not.
HexLiterals ==
    {<<"0", "x", "0">>, <<"0", "x", "f", "f">>, <<"0", "x", "F", "F">>,
     <<"0", "x", "0", "0", "f", "f">>, <<"0", "x", "1", "a", "2", "B">>,
     <<"0", "x", "f", "f", "f", "f">>, <<"f", "f">>, <<"0", "x">>,
     <<"0", "x", "1", "2", "3", "4", "5">>, <<"0", "x", "g">>}

BinaryLiterals ==
    {<<"0", "0", "0", "0", " ", "0", "0", "0", "0", " ",
       "0", "0", "0", "0", " ", "0", "0", "0", "0">>,
     <<"1", "1", "1", "1", " ", "1", "1", "1", "1", " ",
       "1", "1", "1", "1", " ", "1", "1", "1", "1">>,
     <<"0", "0", "0", "1", " ", "0", "0", "1", "0", " ",
       "0", "0", "1", "1", " ", "0", "1", "0", "0">>,
     <<"1", "0", "0", "0", " ", "0", "0", "0", "0", " ",
       "0", "0", "0", "0", " ", "0", "0", "0", "1">>,
     <<"0", "0", "0", "0", "0", "0", "0", "0", "0", "0",
       "0", "0", "0", "0", "0", "0">>,
     <<"0", "0", "0", "0", " ", "0", "0", "0", "0", " ",
       "0", "0", "0", "0", " ", "0", "0", "0", "2">>}

NumberFormats == {"Signed", "Unsigned"} \cup FormatsLong

CodecCall(format, num, text) ==
    [op |-> "codec", stage |-> "args", format |-> format, num |-> num, text |-> text,
     enc |-> EncNone, dec |-> DecRaise]

CodecInputs ==
    {CodecCall(f, n, <<>>) : f \in {"Signed"}, n \in CodecNumbers("Signed")}
    \cup {CodecCall(f, n, <<>>) : f \in {"Unsigned"}, n \in CodecNumbers("Unsigned")}
    \cup {CodecCall(f, n, <<>>) : f \in FormatsLong, n \in CodecNumbers("Long AB CD")}
    \cup {CodecCall("Hex - ASCII", 0, t) : t \in HexLiterals}
    \cup {CodecCall("Binary", 0, t) : t \in BinaryLiterals}

\* The format names and texts drawn for encode_value, the register slices
\* drawn for decode_value.
ValueFormats == {"Signed", "Unsigned", "Hex - ASCII", "Binary", "Long AB CD", "Int64"}

ValueTexts ==
    {Chars("100"), Chars("-5"), Chars("70000"), Chars("3000000000"), Chars("abc"),
     Chars("0x1f")}

ValueSlices == {<<>>, <<100>>, <<40000>>, <<1, 2>>}

ValueInputs ==
    {[op |-> "encode_value", stage |-> "args", format |-> f, text |-> t,
      enc |-> EncNone] : f \in ValueFormats, t \in ValueTexts}
    \cup {[op |-> "decode_value", stage |-> "args", format |-> f, raw |-> r,
           out |-> ValRaise] : f \in ValueFormats, r \in ValueSlices}

\* The states of Poller._connection: None, a client whose connect() did not
\* open the transport, an open client, a closed client.
ConnStates == {"none", "unopened", "open", "closed"}

DisconnectInputs ==
    {[op |-> "disconnect", stage |-> "args", conn |-> c, once |-> c, twice |-> c] :
        c \in ConnStates}

InitCodec ==
    /\ InitProgram
    /\ calc \in AdjustInputs \cup CodecInputs \cup ValueInputs \cup DisconnectInputs

\* self._adjust(value, adjustments) on a decoder's integer
Adjust ==
    /\ calc.op = "adjust" /\ calc.stage = "args"
    /\ calc' = [calc EXCEPT !.stage = "adjusted",
                            !.out = _adjust(DecInt(calc.raw), calc.steps)]
    /\ UNCHANGED progVars

\* self._adjust_reverse(value=float(value), adjustments) on the text that
\* _adjust returned
Reverse ==
    /\ calc.op = "adjust" /\ calc.stage = "adjusted"
    /\ calc.out.kind = "num"
    /\ calc' = [calc EXCEPT !.stage = "reversed",
                            !.rev = _adjust_reverse(FloatOfFormatted(calc.out.num),
                                                    calc.steps)]
    /\ UNCHANGED progVars

\* Encoder.signed / unsigned / long_* on a number, hex_ascii / binary on a
\* literal
Encode ==
    /\ calc.op = "codec" /\ calc.stage = "args"
    /\ calc' = [calc EXCEPT !.stage = "encoded",
                            !.enc = IF calc.format \in NumberFormats
                                    THEN EncodeNumber(Num(RInt(calc.num)), calc.format)
                                    ELSE EncodeText(calc.text, calc.format)]
    /\ UNCHANGED progVars

\* The Decoder method of the format on the registers the encoder returned
Decode ==
    /\ calc.op = "codec" /\ calc.stage = "encoded"
    /\ calc.enc.kind = "regs"
    /\ calc' = [calc EXCEPT !.stage = "decoded",
                            !.dec = DecodeRaw(calc.enc.regs, calc.format)]
    /\ UNCHANGED progVars

\* Poller.encode_value(value, data_format, [])
EncodeValue ==
    /\ calc.op = "encode_value" /\ calc.stage = "args"
    /\ calc' = [calc EXCEPT !.stage = "returned",
                            !.enc = encode_value(calc.text, calc.format, <<>>)]
    /\ UNCHANGED progVars

\* Poller.decode_value(raw_value, data_format, [])
DecodeValue ==
    /\ calc.op = "decode_value" /\ calc.stage = "args"
    /\ calc' = [calc EXCEPT !.stage = "returned",
                            !.out = decode_value(calc.raw, calc.format, <<>>)]
    /\ UNCHANGED progVars

\* poller.disconnect()
DisconnectOnce ==
    /\ calc.op = "disconnect" /\ calc.stage = "args"
    /\ calc' = [calc EXCEPT !.stage = "once", !.once = DisconnectConn(calc.conn)]
    /\ UNCHANGED progVars

\* poller.disconnect() a second time
DisconnectAgain ==
    /\ calc.op = "disconnect" /\ calc.stage = "once"
    /\ calc' = [calc EXCEPT !.stage = "twice", !.twice = DisconnectConn(calc.once)]
    /\ UNCHANGED progVars

NextCodec ==
    \/ Adjust \/ Reverse \/ Encode \/ Decode \/ EncodeValue \/ DecodeValue
    \/ DisconnectOnce \/ DisconnectAgain

SpecCodec == InitCodec /\ [][NextCodec]_vars

(***************************************************************************)
(* SpecWords: Decoder.signed and Decoder.unsigned on every 16-bit word.     *)
(***************************************************************************)
WordInputs ==
    {[op |-> "decode", stage |-> "args", format |-> f, word |-> w, dec |-> DecRaise] :
        f \in {"Signed", "Unsigned"}, w \in 0..UInt16Max}

InitWords ==
    /\ InitProgram
    /\ calc \in WordInputs

\* Decoder.signed(value=[w]) / Decoder.unsigned(value=[w])
DecodeWord ==
    /\ calc.op = "decode" /\ calc.stage = "args"
    /\ calc' = [calc EXCEPT !.stage = "decoded",
                            !.dec = DecodeRaw(<<calc.word>>, calc.format)]
    /\ UNCHANGED progVars

NextWords == DecodeWord

SpecWords == InitWords /\ [][NextWords]_vars

(***************************************************************************)
(* The properties checked.                                                 *)
(***************************************************************************)
Max(a, b) == IF a > b THEN a ELSE b

\* C1: a wire read that fails with a transport error (ConnectionException
\* or an error response) does not make the poll cycle raise: no worker is
\* ever ended by an exception that followed a failed batch read.
C1_FailedBatchDoesNotRaise ==
    \A t \in TaskIds : tasks[t].failed => tasks[t].pc # "crashed"

\* C2: after a connect() that did not open the transport, or without a
\* connection object, the loop runs no poll cycle: such a worker is never
\* reading, emitting or sleeping.
C2_NoPollAfterFailedConnect ==
    \A t \in TaskIds :
        tasks[t].conn \in {"none", "unopened"}
            => tasks[t].pc \notin {"reading", "emit", "check"}

\* C3: the sleep at the end of every cycle lasts
\* max(0, target_interval - elapsed) milliseconds.
C3_SleepIsRemainderOfInterval ==
    \A t \in TaskIds :
        tasks[t].pc = "check" => tasks[t].slept = Max(0, Sleep - tasks[t].measured)

\* C4: at most one wire transaction is in flight on a device's connection:
\* no write is on the wire while the read of the same Poller is.
C4_OneTransactionInFlight ==
    gui.pc = "writing" => tasks[gui.task].pc # "reading"

\* C5: every loop that has connected and has ended, by the stop flag or by
\* an error, has called disconnect() and then emitted finished.
C5_EndedLoopDisconnectedAndFinished ==
    \A t \in TaskIds :
        tasks[t].pc \in {"done", "crashed"} /\ tasks[t].conn # "none"
            => tasks[t].conn = "closed" /\ tasks[t].finished

\* C6: the result channel carries row sets only: no None is emitted to the
\* consumer or stored by it.
C6_OnlyRowSetsPublished ==
    /\ \A i \in 1..Len(channel) : ~channel[i].none
    /\ \A i \in 1..Len(workers_data) : ~workers_data[i].none

\* C7: when the shutdown wait of closeEvent is over, every loop that was
\* running when the stop flag was set has disconnected and signalled its
\* termination.
C7_ShutdownEndsEveryLoop ==
    gui.pc = "closed"
        => \A t \in gui.waited :
               tasks[t].pc = "done" /\ tasks[t].conn = "closed" /\ tasks[t].finished

\* C8: at most one polling task runs per device at any moment, after any
\* sequence of start, stop and test-poll.
C8_OneRunningTaskPerDevice ==
    \A t, u \in TaskIds :
        t # u /\ tasks[t].pc \in RunningPcs /\ tasks[u].pc \in RunningPcs
            => tasks[t].guid # tasks[u].guid

\* The range of the integers a format holds.
FormatHolds(value, format) ==
    /\ value.huge = 0
    /\ CASE format = "Signed" ->
              RLeq(RInt(Int16Min), value.r) /\ RLeq(value.r, RInt(Int16Max))
         [] format = "Unsigned" ->
              RLeq(RInt(0), value.r) /\ RLeq(value.r, RInt(UInt16Max))
         [] OTHER -> TRUE

\* The text in the dialog is not numeric, or is out of range for the
\* format of the row after the inverse adjustment.
BadWriteInput ==
    /\ gui.kind = "regs"
    /\ \/ ~isNumerical(gui.text)
       \/ LET value == _adjust_reverse(ParseFloat(gui.text), gui.adjustments)
          IN  value.kind = "ok" /\ ~FormatHolds(value.v, gui.format)

\* C9: a register write with a non-numeric or out-of-range text returns
\* the failure value without raising and without a wire write.
C9_BadInputReturnsFailure ==
    BadWriteInput => gui.pc = "msgbox" /\ ~gui.performed

\* C10: a write that was performed is never reported to the operator as a
\* bad-input failure.
C10_PerformedWriteNotReportedBad ==
    gui.pc = "msgbox" => ~gui.performed

\* The registers of function code 3 given to the planner and the requests
\* it made of them.
PlanGiven == calc.data[1].registers
PlanMade == calc.requests[1].requests

\* For every map entry of the requests, in order, the number of its request.
BatchNumbers(requests) ==
    Flatten([j \in 1..Len(requests) |-> [k \in 1..Len(requests[j].map) |-> j]])

\* The addresses of a register list, and the <<address, quantity>> pairs of
\* a request list.
Addresses(registers) == [i \in 1..Len(registers) |-> registers[i].address]
Batches(requests) ==
    [j \in 1..Len(requests) |-> <<requests[j].address, requests[j].quantity>>]

AllOneWord(registers) ==
    \A i \in 1..Len(registers) : reg_len(registers[i].format) = 1

\* C11: two consecutive registers of one function code are in the same
\* batch if and only if the second's address is the first's address plus
\* the first's word length; one-word registers at 0, 1, 2 give the batch
\* {0, count 3}, and at 0, 1, 3 the batches {0, count 2} and {3, count 1}.
C11_SameBatchIffContiguous ==
    calc.op = "plan" /\ calc.stage # "args"
        => LET batch == BatchNumbers(PlanMade)
           IN  /\ Len(batch) = Len(PlanGiven)
               /\ \A i \in 1..(Len(PlanGiven) - 1) :
                      (batch[i] = batch[i + 1])
                          <=> (PlanGiven[i + 1].address
                                 = PlanGiven[i].address + reg_len(PlanGiven[i].format))
               /\ AllOneWord(PlanGiven) /\ Addresses(PlanGiven) = <<0, 1, 2>>
                      => Batches(PlanMade) = <<(<<0, 3>>)>>
               /\ AllOneWord(PlanGiven) /\ Addresses(PlanGiven) = <<0, 1, 3>>
                      => Batches(PlanMade) = <<(<<0, 2>>), (<<3, 1>>)>>

\* A plan was built of one-word registers at 0, 1, 3: the gap of one
\* register has started a second batch.
C11_GapStartsBatch ==
    /\ calc.op = "plan" /\ calc.stage = "planned"
    /\ AllOneWord(PlanGiven) /\ Addresses(PlanGiven) = <<0, 1, 3>>
    /\ Len(PlanMade) = 2

\* Every step of the list is arithmetic.
AllArithmetic(steps) ==
    \A i \in 1..Len(steps) : steps[i].operator \in {"+", "-", "*", "/", "^"}

\* The pipeline applied to raw was then inverted, and the inverse gave raw.
RoundTripGivesRaw ==
    calc.rev.kind = "ok" /\ calc.rev.v.huge = 0 /\ REq(calc.rev.v.r, RInt(calc.raw))

\* C12 as stated: for every list of arithmetic steps and every raw value,
\* invert(apply(x, steps), steps) equals x.
C12_InverseUndoesEveryArithmeticList ==
    calc.op = "adjust" /\ calc.stage = "reversed" /\ AllArithmetic(calc.steps)
        => RoundTripGivesRaw

\* The forward walk from the running value v loses nothing: no step
\* multiplies by zero or raises to the power zero, no power is taken of a
\* negative running value, and the final value has at most two decimals.
RECURSIVE LosesNothing(_, _)
LosesNothing(v, steps) ==
    IF steps = <<>> THEN 100 % v.d = 0
    ELSE LET a == Head(steps)
             operand == RInt(a.operand)
         IN  CASE a.operator = "+" -> LosesNothing(RAdd(v, operand), Tail(steps))
               [] a.operator = "-" -> LosesNothing(RSub(v, operand), Tail(steps))
               [] a.operator = "*" ->
                    a.operand # 0 /\ LosesNothing(RMul(v, operand), Tail(steps))
               [] a.operator = "/" ->
                    a.operand # 0 /\ LosesNothing(RDiv(v, operand), Tail(steps))
               [] a.operator = "^" ->
                    a.operand > 0 /\ v.n >= 0
                        /\ LosesNothing(RPow(v, a.operand), Tail(steps))
               [] OTHER -> FALSE

\* C12 as amended: invert(apply(x, steps), steps) equals x for the lists of
\* arithmetic steps whose forward walk loses nothing.
C12_InverseUndoesLosslessList ==
    calc.op = "adjust" /\ calc.stage = "reversed" /\ AllArithmetic(calc.steps)
        /\ LosesNothing(RInt(calc.raw), calc.steps)
        => RoundTripGivesRaw

\* A list of two arithmetic steps was applied and inverted and gave the raw
\* value back.
C12_TwoStepsUndone ==
    /\ calc.op = "adjust" /\ calc.stage = "reversed"
    /\ Len(calc.steps) = 2 /\ AllArithmetic(calc.steps)
    /\ calc.steps[1].operator # calc.steps[2].operator
    /\ LosesNothing(RInt(calc.raw), calc.steps)
    /\ RoundTripGivesRaw

(***************************************************************************)
(* C13.  The encode / decode round trip of the integer formats.            *)
(***************************************************************************)
InRange(format, v) ==
    CASE format = "Signed" -> Int16Min <= v /\ v <= Int16Max
      [] format = "Unsigned" -> 0 <= v /\ v <= UInt16Max
      [] OTHER -> Int32Min <= v /\ v <= Int32Max

\* 0x followed by one to four hexadecimal digits of either case
IsHexLiteral(t) ==
    /\ Len(t) \in 3..6 /\ SubSeq(t, 1, 2) = <<"0", "x">>
    /\ \A i \in 3..Len(t) : \E k \in 1..16 : t[i] \in {HexCharsLower[k], HexCharsUpper[k]}

\* four groups of four binary digits separated by single spaces
IsBinaryLiteral(t) ==
    /\ Len(t) = 19
    /\ \A i \in 1..19 : IF i \in {5, 10, 15} THEN t[i] = " " ELSE t[i] \in {"0", "1"}

\* the argument of the call is a value of the format's valid range
CodecValid ==
    IF calc.format \in NumberFormats THEN InRange(calc.format, calc.num)
    ELSE IF calc.format = "Hex - ASCII" THEN IsHexLiteral(calc.text)
    ELSE IsBinaryLiteral(calc.text)

\* every valid argument is encoded to registers
ValidIsEncoded ==
    (calc.op = "codec" /\ calc.stage # "args" /\ CodecValid) => calc.enc.kind = "regs"

CodecDone == calc.op = "codec" /\ calc.stage = "decoded" /\ CodecValid

\* the number a hex literal denotes
RECURSIVE HexNumber(_)
HexNumber(ds) ==
    IF ds = <<>> THEN 0
    ELSE 16 * HexNumber(SubSeq(ds, 1, Len(ds) - 1))
         + ((CHOOSE k \in 1..16 : ds[Len(ds)] \in {HexCharsLower[k], HexCharsUpper[k]}) - 1)

\* a hex literal in lower case without leading zeros
IsCanonicalHex(t) ==
    /\ IsHexLiteral(t)
    /\ \A i \in 3..Len(t) : \E k \in 1..16 : t[i] = HexCharsLower[k]
    /\ Len(t) > 3 => t[3] # "0"

WordDecoded == calc.op = "decode" /\ calc.stage = "decoded"

\* C14: Signed decode maps every word w in 0..65535 to w when w <= 32767 and
\* to w - 65536 otherwise, so the result lies in -32768..32767; Unsigned
\* decode returns w itself.
C14_SignedIsTwosComplement ==
    WordDecoded =>
        /\ calc.dec.kind = "int"
        /\ calc.format = "Signed" =>
              /\ calc.word <= 32767 => calc.dec.num = calc.word
              /\ calc.word > 32767 => calc.dec.num = calc.word - 65536
              /\ calc.dec.num \in -32768..32767
        /\ calc.format = "Unsigned" => calc.dec.num = calc.word

\* the word 40000 was decoded as Signed and gave -25536
C14_Word40000Decoded ==
    /\ WordDecoded
    /\ calc.format = "Signed" /\ calc.word = 40000 /\ calc.dec.num = -25536

(***************************************************************************)
(* C15, C16.  The adjustments of one decoded number.                       *)
(***************************************************************************)
AdjustDone == calc.op = "adjust" /\ calc.stage # "args"

\* The running value after the steps, defined from the last step back: it
\* is what the last step makes of the running value after the steps before
\* it.  A lookup leaves the running value as it is.
RECURSIVE RunningValue(_, _)
RunningValue(raw, steps) ==
    IF steps = <<>> THEN RInt(raw)
    ELSE LET before == RunningValue(raw, SubSeq(steps, 1, Len(steps) - 1))
             a == steps[Len(steps)]
         IN  CASE a.operator = "+" -> RAdd(before, RInt(a.operand))
               [] a.operator = "-" -> RSub(before, RInt(a.operand))
               [] a.operator = "*" -> RMul(before, RInt(a.operand))
               [] a.operator = "/" -> RDiv(before, RInt(a.operand))
               [] a.operator = "^" -> RPow(before, a.operand)
               [] OTHER -> before

\* f is x written with two decimal digits: the sign of x (a zero may carry
\* either sign), and a magnitude whole.frac that is at most half a hundredth
\* away from that of x.
TwoDecimalsOf(f, x) ==
    LET s == IF f.neg THEN -1 ELSE 1
        r == x.n - s * f.whole * x.d
    IN  /\ f.whole >= 0 /\ f.frac \in 0..99
        /\ x.n < 0 => f.neg
        /\ x.n > 0 => ~f.neg
        /\ 2 * Abs(r * 100 - s * f.frac * x.d) <= x.d

\* C15: when apply returns a number, it is the running value after the steps
\* taken in list order, written with exactly two decimal digits; 10 with
\* [+5, *2] gives 30.00.
C15_StepsInListOrderTwoDecimals ==
    (AdjustDone /\ calc.out.kind = "num") =>
        /\ TwoDecimalsOf(calc.out.num, RunningValue(calc.raw, calc.steps))
        /\ (calc.raw = 10 /\ calc.steps = <<Arith("+", 5), Arith("*", 2)>>) =>
              calc.out.num = [neg |-> FALSE, whole |-> 30, frac |-> 0]

\* 10 with [+5, *2] was adjusted to 30.00
C15_TenPlusFiveTimesTwo ==
    /\ AdjustDone
    /\ calc.raw = 10 /\ calc.steps = <<Arith("+", 5), Arith("*", 2)>>
    /\ calc.out = ValNum([neg |-> FALSE, whole |-> 30, frac |-> 0])

\* every step of the list can be evaluated on the running value it meets
Evaluates(raw, steps) ==
    \A j \in 1..Len(steps) :
        /\ steps[j].operator = "/" => steps[j].operand # 0
        /\ (steps[j].operator = "^" /\ steps[j].operand < 0) =>
              RunningValue(raw, SubSeq(steps, 1, j - 1)).n # 0

\* step i is a lookup whose key equals the running value after steps 1..i-1
Matches(raw, steps, i) ==
    /\ steps[i].operator = "#"
    /\ REq(RunningValue(raw, SubSeq(steps, 1, i - 1)), RInt(steps[i].operand))

\* C16: the first lookup step whose key equals the running value after all
\* earlier steps makes apply return that step's label, whatever steps
\* follow; with [{0: No}, {1: Yes}] raw 1 gives Yes and raw 0 gives No.
C16_MatchingLookupReturnsLabel ==
    AdjustDone =>
        /\ \A i \in 1..Len(calc.steps) :
              ( /\ Evaluates(calc.raw, SubSeq(calc.steps, 1, i - 1))
                /\ Matches(calc.raw, calc.steps, i)
                /\ \A j \in 1..(i - 1) : ~Matches(calc.raw, calc.steps, j) )
              => calc.out = ValLabel(calc.steps[i].label)
        /\ calc.steps = <<Lookup(0, "No"), Lookup(1, "Yes")>> =>
              /\ calc.raw = 1 => calc.out = ValLabel("Yes")
              /\ calc.raw = 0 => calc.out = ValLabel("No")

\* a lookup matched and the arithmetic step after it was skipped
C16_LookupMatchedLaterStepSkipped ==
    /\ AdjustDone
    /\ Len(calc.steps) = 2
    /\ calc.steps[1].operator = "#" /\ calc.steps[2].operator # "#"
    /\ calc.out.kind = "label"

(***************************************************************************)
(* C17.  Registers of one function code whose address windows overlap.     *)
(***************************************************************************)
\* The addresses a register occupies.
Window(register) == register.address..(register.address + reg_len(register.format) - 1)

WindowsOverlap(registers) ==
    \E i, j \in 1..Len(registers) :
        i # j /\ Window(registers[i]) \cap Window(registers[j]) # {}

\* C17: plan-build on a list of one function code in which two registers'
\* address windows overlap fails; no batches are made of such a list.
C17_OverlapMakesNoBatches ==
    (calc.op = "plan" /\ calc.stage # "args" /\ WindowsOverlap(PlanGiven))
        => PlanMade = <<>>

(***************************************************************************)
(* C18.  A register whose slice cannot be decoded.                         *)
(***************************************************************************)
\* C18: a decode failure on one register never leaves poll_once or the poll
\* loop: no worker whose wire read was answered is ended by the exception
\* decode_value raises on an empty or too-short slice.
C18_DecodeFailureStaysLocal ==
    \A t \in TaskIds :
        (tasks[t].pc = "crashed" /\ ~tasks[t].failed) => tasks[t].raised # "ValueError"

(***************************************************************************)
(* C19.  An unknown format name and a value the format cannot hold.        *)
(***************************************************************************)
ValueReturned == calc.op \in {"encode_value", "decode_value"} /\ calc.stage = "returned"

\* C19: encode and decode raise for a format name that is none of the known
\* ones, whereas encode of an out-of-range or malformed value of a known
\* format returns registers or the failure value and does not raise.
C19_OnlyUnknownFormatRaises ==
    ValueReturned =>
        /\ (calc.op = "decode_value" /\ calc.format \notin KnownFormats)
              => calc.out.kind = "raise"
        /\ calc.op = "encode_value"
              => (calc.enc.kind = "raise" <=> calc.format \notin KnownFormats)

(***************************************************************************)
(* C20.  The rows of a cycle in which every read is answered in full.      *)
(***************************************************************************)
\* The planned registers over all function codes, each with its function.
RECURSIVE PlannedRegisters(_)
PlannedRegisters(data) ==
    IF data = <<>> THEN <<>>
    ELSE [i \in 1..Len(Head(data).registers) |->
            [func |-> Head(data).func, register |-> Head(data).registers[i]]]
         \o PlannedRegisters(Tail(data))

\* C20: when every wire read of the cycle is answered with the units asked
\* for, poll_once returns exactly one row per planned register, each row
\* carrying that register's id, address, format and function code.
C20_OneRowPerPlannedRegister ==
    (calc.op = "plan" /\ calc.stage = "polled") =>
        LET planned == PlannedRegisters(calc.data)
        IN  /\ calc.polled.kind = "rows"
            /\ Len(calc.polled.rows) = Len(planned)
            /\ \A i \in 1..Len(calc.polled.rows) :
                  LET row == calc.polled.rows[i]
                  IN  /\ row.id = planned[i].register.id
                      /\ row.address = planned[i].register.address
                      /\ row.format = planned[i].register.format
                      /\ row.func = planned[i].func

(***************************************************************************)
(* C21.  Poller.disconnect in every state of the connection.               *)
(***************************************************************************)
\* C21: disconnect before any connect changes nothing, and a second
\* disconnect leaves the Poller as the first one left it.
C21_DisconnectIdempotent ==
    calc.op = "disconnect" =>
        /\ (calc.stage # "args" /\ calc.conn = "none") => calc.once = "none"
        /\ calc.stage = "twice" => calc.twice = calc.once

\* an open connection was disconnected twice and is closed
C21_OpenClosedTwice ==
    /\ calc.op = "disconnect" /\ calc.stage = "twice"
    /\ calc.conn = "open" /\ calc.twice = "closed"

(***************************************************************************)
(* C22.  The stop flag and a cycle in progress.                            *)
(***************************************************************************)
InCycle == {"reading", "emit"}

\* C22: with the stop flag set, a worker in the middle of a cycle goes on to
\* the end of its poll and publishes (its next position is still in the
\* cycle or the check after the sleep), and a worker whose check saw the
\* flag set begins no other poll: it goes to disconnect.
C22_StopFlagReadOnlyAtCheck ==
    [][\A t \in TaskIds :
          /\ (~is_polling /\ tasks[t].pc \in InCycle)
                => tasks'[t].pc \in InCycle \cup {"check"}
          /\ (~is_polling /\ tasks[t].pc = "check" /\ tasks'[t].pc # "check")
                => tasks'[t].pc = "disconnect"]_vars

(***************************************************************************)
(* C23.  The number of batches made on device activation.                  *)
(***************************************************************************)
\* The number of maximal gap-free runs of registers taken in ascending
\* numeric address order: a run starts at each register that no other
\* register ends right before.
GapFreeRuns(registers) ==
    Cardinality({i \in 1..Len(registers) :
                   ~\E j \in 1..Len(registers) :
                       registers[j].address + reg_len(registers[j].format)
                           = registers[i].address})

\* C23: the registers reach the planner sorted by numeric address, so the
\* number of batches is the number of maximal gap-free runs; one-word
\* registers at 9 and 10 end up in one batch.
C23_BatchesAreGapFreeRuns ==
    (calc.op = "activate" /\ calc.stage = "planned" /\ ~WindowsOverlap(calc.regs)) =>
        /\ \A i \in 1..(Len(calc.supplied) - 1) :
              calc.supplied[i].address < calc.supplied[i + 1].address
        /\ Len(calc.requests) = GapFreeRuns(calc.regs)

(***************************************************************************)
(* C24.  The quantity of a batch.                                          *)
(***************************************************************************)
\* The plan of either planning call, as the list of its requests over all
\* function codes.
PlanIsBuilt == calc.op \in {"plan", "activate"} /\ calc.stage # "args"

BuiltRequests ==
    IF calc.op = "plan"
    THEN Flatten([i \in 1..Len(calc.requests) |-> calc.requests[i].requests])
    ELSE calc.requests

\* The word length a format stands for.
WordLength(format) ==
    CASE format \in {"Signed", "Unsigned", "Hex - ASCII", "Binary"} -> 1
      [] format \in {"Double AB CD EF GH", "Double GH EF CD AB",
                     "Double BA DC FE HG", "Double HG FE DC BA"} -> 4
      [] OTHER -> 2

RECURSIVE MapWords(_)
MapWords(map) ==
    IF map = <<>> THEN 0
    ELSE WordLength(Head(map).content.format) + MapWords(Tail(map))

\* C24: after plan-build every batch's quantity is the sum of the word
\* lengths of the registers in its map, a register's word length being the
\* one of its format: 1 for the 16-bit formats, 2 for Long and Float, 4 for
\* Double.
C24_QuantityIsSumOfLengths ==
    PlanIsBuilt =>
        \A j \in 1..Len(BuiltRequests) :
            /\ BuiltRequests[j].quantity = MapWords(BuiltRequests[j].map)
            /\ \A k \in 1..Len(BuiltRequests[j].map) :
                  BuiltRequests[j].map[k].length
                      = WordLength(BuiltRequests[j].map[k].content.format)

\* a batch was built of a one-word register followed by a Double
C24_WordAndDoubleInOneBatch ==
    /\ PlanIsBuilt
    /\ \E j \in 1..Len(BuiltRequests) :
          /\ Len(BuiltRequests[j].map) = 2
          /\ BuiltRequests[j].map[1].content.format = "Signed"
          /\ BuiltRequests[j].map[2].content.format = "Double AB CD EF GH"
          /\ BuiltRequests[j].quantity = 5

(***************************************************************************)
(* C25.  The map of a batch.                                               *)
(***************************************************************************)
\* Per function code, the registers given to the planner and the requests
\* made of them.
PlannedGroups ==
    IF calc.op = "plan"
    THEN [i \in 1..Len(calc.data) |->
            [registers |-> calc.data[i].registers, requests |-> calc.requests[i].requests]]
    ELSE <<[registers |-> calc.supplied, requests |-> calc.requests]>>

\* The map entries of a request list that refer to the register.
EntriesOf(requests, register) ==
    {jk \in UNION {{<<j, k>> : k \in 1..Len(requests[j].map)} : j \in 1..Len(requests)} :
        requests[jk[1]].map[jk[2]].content = register}

\* C25: after plan-build every input register of a function code is in
\* exactly one map entry of exactly one batch; an entry's offset is the
\* batch's quantity before the register was appended, which is the register
\* address minus the batch's start address; the offset windows of a batch
\* are pairwise disjoint and cover exactly the words 0..quantity-1.
C25_MapPartitionsBatch ==
    PlanIsBuilt =>
        \A g \in 1..Len(PlannedGroups) :
            LET registers == PlannedGroups[g].registers
                requests == PlannedGroups[g].requests
            IN  /\ \A i \in 1..Len(registers) :
                      Cardinality(EntriesOf(requests, registers[i])) = 1
                /\ \A j \in 1..Len(requests) :
                      LET map == requests[j].map
                      IN  /\ \A k \in 1..Len(map) :
                                /\ map[k].pos = MapWords(SubSeq(map, 1, k - 1))
                                /\ map[k].pos = map[k].address - requests[j].address
                          /\ \A w \in 0..(requests[j].quantity - 1) :
                                Cardinality({k \in 1..Len(map) :
                                               map[k].pos <= w
                                               /\ w < map[k].pos + map[k].length}) = 1
                          /\ \A k \in 1..Len(map) :
                                map[k].pos >= 0
                                /\ map[k].pos + map[k].length <= requests[j].quantity

\* a register was appended after a two-word register, at offset 2
C25_EntryAfterLong ==
    /\ PlanIsBuilt
    /\ \E g \in 1..Len(PlannedGroups) :
          \E j \in 1..Len(PlannedGroups[g].requests) :
              LET map == PlannedGroups[g].requests[j].map
              IN  Len(map) >= 2 /\ map[1].length = 2 /\ map[2].pos = 2

(***************************************************************************)
(* C26.  The wire reads of one cycle.                                      *)
(***************************************************************************)
\* The read a batch of a function code calls for.
BatchRead(item) ==
    [primitive |-> CASE item.func = 1 -> "read_coils"
                     [] item.func = 2 -> "read_discrete_inputs"
                     [] item.func = 3 -> "read_holding_registers"
                     [] item.func = 4 -> "read_input_registers",
     address |-> item.request.address,
     count |-> item.request.quantity]

\* The worker's poll of the cycle is over: it returned or raised.
PollOver(task) ==
    task.pc \in {"emit", "check"} \/ (task.pc = "crashed" /\ task.reads # <<>>)

\* C26: in one poll cycle there is exactly one wire read per batch, in the
\* read primitive of the batch's function code, at its start address for
\* its quantity; no batch is read twice and none is skipped.
C26_OneReadPerBatch ==
    \A t \in TaskIds :
        LET task == tasks[t]
        IN  /\ Len(task.reads) <= Len(task.requests)
            /\ \A k \in 1..Len(task.reads) : task.reads[k] = BatchRead(task.requests[k])
            /\ PollOver(task) => Len(task.reads) = Len(task.requests)

(***************************************************************************)
(* C27.  The raw words of a row.                                           *)
(***************************************************************************)
\* The words the device holds for the register of a row: the slice of the
\* batch response that is decoded into the row's value.
RegisterWords(row) ==
    [w \in 1..WordLength(row.format) |-> DeviceUnit(row.func, row.address + w - 1)]

\* C27: the raw words field of every output row is the slice of the batch
\* response for that row's register, the words its value was decoded from.
C27_RowHoldsItsSlice ==
    (calc.op = "plan" /\ calc.stage = "polled" /\ calc.polled.kind = "rows") =>
        \A i \in 1..Len(calc.polled.rows) :
            calc.polled.rows[i].response = RegisterWords(calc.polled.rows[i])

(***************************************************************************)
(* C28.  A test poll.                                                      *)
(***************************************************************************)
\* The workers of the session were started by test_polling: the stop flag
\* is in the stop state, the workers are still registered and the window is
\* open (closeEvent is the other way to a flag in the stop state).
TestPollRun ==
    /\ ~is_polling /\ gui.pc = "idle"
    /\ \E d \in Devices : workers[d] # 0

\* C28: a worker started by a test poll performs exactly one cycle and then
\* disconnects and signals finished: it never begins a second cycle, and
\* when it has ended it has completed one cycle, is disconnected and has
\* emitted finished.
C28_TestPollIsOneCycle ==
    TestPollRun =>
        \A t \in TaskIds :
            /\ tasks[t].cycles <= 1
            /\ tasks[t].cycles = 1 => tasks[t].pc \in {"disconnect", "finish", "done"}
            /\ tasks[t].pc \in {"done", "crashed"} =>
                  /\ tasks[t].pc = "done" /\ tasks[t].cycles = 1
                  /\ tasks[t].conn = "closed" /\ tasks[t].finished

(***************************************************************************)
(* C29.  The Poller a write goes to.                                       *)
(***************************************************************************)
\* C29: every write that is issued goes to a Poller whose connection is
\* open, after its connect() and before its disconnect(), and whose worker
\* is the one registered for a device.
C29_WriteOnOpenConnection ==
    gui.pc = "writing" =>
        /\ tasks[gui.task].conn = "open"
        /\ \E d \in Devices : workers[d] = gui.task

\* Worker t has emitted the result of its current cycle.
HasPublished(t) == t \in TaskIds /\ tasks[t].published # ""

\* C30: while polling stays enabled, every task submitted to the pool gets
\* started and publishes at least one result, also when there are more
\* active devices than the pool has threads: a submitted task leads to the
\* flag being cleared or to that task having published.
C30_SubmittedTaskPublishes ==
    \A t \in 1..Len(PollerGuids) :
        (t \in TaskIds /\ is_polling) ~> (~is_polling \/ HasPublished(t))

====
